---- MODULE Spec2Model ----
(***************************************************************************)
(* A model of the subtitle engine of the podcast repository:               *)
(*   src/timeline_to_subs.py  clean_text, wrap_text_for_srt,               *)
(*                            split_segment, synthesize_times,             *)
(*                            build_from_timeline                          *)
(*   src/srt_to_ass.py        best_speaker_for_caption,                    *)
(*                            consume_from_buffer, assign_speakers_to_srt, *)
(*                            wrap_ass                                     *)
(*                                                                         *)
(* Strings are sequences of one-character strings.  The unit of time is    *)
(* the tick, 1/12000 s, so that a millisecond (12 ticks), the default      *)
(* reading rate (12 chars/s: 1000 ticks per character) and the default     *)
(* pauses are whole numbers of ticks.  The times read from a file, the     *)
(* durations of a configuration and the times that round(x, 3) returns     *)
(* are written as whole numbers of ticks; a time that the code computes    *)
(* with is a double, with the arithmetic of the doubles.                   *)
(***************************************************************************)
EXTENDS Integers, Sequences, FiniteSets, TLC

VARIABLES
    \* one run of build_from_timeline(timeline_or_segments, srt, ass, cfg):
    \* the content of the input file and the configuration; the control
    \* point; b_segs (the code's segs), the loop indexes, needs_synth, idx, srt_blocks and
    \* ass_events of the code; subs, the sub-captions emitted so far with the
    \* segment each comes from; the exception that ended the run; whether the
    \* warning was printed; the two files (<<>> while not written)
    pc, raw, b_cfg, b_segs, ck_i, needs_synth, em_i, idx, subs, srt_blocks, ass_events,
    exc, warned, srt_file, ass_file,
    \* one call of norm_speaker: the label and the role returned
    n_pc, n_raw, n_role,
    \* one call of split_segment(text, start, end, max_chars)
    sp_pc, sp_text, sp_start, sp_end, sp_max, sp_path, sp_parts, sp_out,
    \* one call of synthesize_times(segments, cfg): the loop index, the clock t
    sy_pc, sy_segs, sy_cfg, sy_i, sy_t, sy_out,
    \* one call of wrap_text_for_srt or wrap_ass: the function, the text and
    \* the width of the outermost call, the text and width of the current
    \* attempt, the returned lines
    w_pc, w_fn, w_in, w_cfg_width, w_text, w_width, w_lines,
    \* one call of assign_speakers_to_srt(srt_items, transcript, hector, aura):
    \* the loop index, the buffers, the styles so far, last_style; as_names
    \* holds the two names; as_how records the branch that styled each caption
    as_pc, as_items, as_transcript, as_k, as_buffers, as_styles, as_last, as_how,
    as_names,
    \* one call of texto_a_audio: the parsed (role, text) pairs, the emoji
    \* setting, the loop index, the chunks rendered, the durations measured,
    \* the records of the sidecar file and the segments of the timeline file
    a_pc, a_pairs, a_allow, a_i, a_chunks, a_durs, a_sidecar, a_timeline,
    \* one run of srt_whisper.main: how the paths are given, the state of the
    \* audio file, the number of times main has waited for it, whether the
    \* SRT path is the audio path with the suffix .srt, the state of the SRT
    \* file, the sources tried so far with what each returned and left, the
    \* exit status
    wh_pc, wh_args, wh_audio, wh_polls, wh_same, wh_srt, wh_tried, wh_status

splitVars == <<sp_pc, sp_text, sp_start, sp_end, sp_max, sp_path, sp_parts, sp_out>>
synthVars == <<sy_pc, sy_segs, sy_cfg, sy_i, sy_t, sy_out>>
wrapVars == <<w_pc, w_fn, w_in, w_cfg_width, w_text, w_width, w_lines>>
assignVars ==
    <<as_pc, as_items, as_transcript, as_k, as_buffers, as_styles, as_last, as_how,
      as_names>>
buildVars ==
    <<pc, raw, b_cfg, b_segs, ck_i, needs_synth, em_i, idx, subs, srt_blocks, ass_events,
      exc, warned, srt_file, ass_file>>
normVars == <<n_pc, n_raw, n_role>>
audioVars == <<a_pc, a_pairs, a_allow, a_i, a_chunks, a_durs, a_sidecar, a_timeline>>
whisperVars ==
    <<wh_pc, wh_args, wh_audio, wh_polls, wh_same, wh_srt, wh_tried, wh_status>>
vars ==
    <<buildVars, splitVars, synthVars, wrapVars, assignVars, normVars, audioVars,
      whisperVars>>

(***************************************************************************)
(* Bounds of the model and units                                           *)
(***************************************************************************)
MaxSegs == 2
MaxBlocks == 2
MaxSynthSegs == 2
MaxWords == 5
MaxCaptions == 3
MaxTranscript == 2

\* one tick is 1/12000 s
TicksPerSec == 12 * 1000
TicksPerMs == TicksPerSec \div 1000

Min(a, b) == IF a <= b THEN a ELSE b
Max(a, b) == IF a >= b THEN a ELSE b

(***************************************************************************)
(* Natural numbers of any size: the sequence of the digits in base 2^14,   *)
(* the lowest first, the highest not 0 (the empty sequence is 0)           *)
(***************************************************************************)
LimbBits == 2 * 7
LimbBase == 2^LimbBits

RECURSIVE BTrim(_)
BTrim(a) == IF a # <<>> /\ a[Len(a)] = 0 THEN BTrim(SubSeq(a, 1, Len(a) - 1)) ELSE a

RECURSIVE BInt(_)
BInt(n) == IF n = 0 THEN <<>> ELSE <<n % LimbBase>> \o BInt(n \div LimbBase)

RECURSIVE BToInt(_)
BToInt(a) == IF a = <<>> THEN 0 ELSE a[1] + LimbBase * BToInt(Tail(a))

BLimb(a, i) == IF i <= Len(a) THEN a[i] ELSE 0

RECURSIVE BAddFrom(_, _, _, _)
BAddFrom(a, b, i, carry) ==
    IF i > Len(a) /\ i > Len(b) THEN (IF carry = 0 THEN <<>> ELSE <<carry>>)
    ELSE LET t == BLimb(a, i) + BLimb(b, i) + carry
         IN  <<t % LimbBase>> \o BAddFrom(a, b, i + 1, t \div LimbBase)

BAdd(a, b) == BAddFrom(a, b, 1, 0)

\* a - b for a >= b
RECURSIVE BSubFrom(_, _, _, _)
BSubFrom(a, b, i, borrow) ==
    IF i > Len(a) THEN <<>>
    ELSE LET t == a[i] - BLimb(b, i) - borrow
         IN  <<t % LimbBase>> \o BSubFrom(a, b, i + 1, IF t < 0 THEN 1 ELSE 0)

BSub(a, b) == BTrim(BSubFrom(a, b, 1, 0))

\* -1, 0 or 1 as a is below, equal to or above b
BCmp(a, b) ==
    IF Len(a) # Len(b) THEN (IF Len(a) < Len(b) THEN -1 ELSE 1)
    ELSE LET D == {i \in 1..Len(a) : a[i] # b[i]} IN
         IF D = {} THEN 0
         ELSE LET i == CHOOSE j \in D : \A k \in D : k <= j
              IN  IF a[i] < b[i] THEN -1 ELSE 1

\* a * k for 0 <= k <= 2^16
RECURSIVE BMulSmallFrom(_, _, _, _)
BMulSmallFrom(a, k, i, carry) ==
    IF i > Len(a) THEN BInt(carry)
    ELSE LET t == a[i] * k + carry
         IN  <<t % LimbBase>> \o BMulSmallFrom(a, k, i + 1, t \div LimbBase)

BMulSmall(a, k) == IF k = 0 THEN <<>> ELSE BMulSmallFrom(a, k, 1, 0)

BZeros(n) == [i \in 1..n |-> 0]

RECURSIVE BMulFrom(_, _, _)
BMulFrom(a, b, i) ==
    IF i > Len(b) THEN <<>>
    ELSE BAdd(IF b[i] = 0 THEN <<>> ELSE BZeros(i - 1) \o BMulSmall(a, b[i]),
              BMulFrom(a, b, i + 1))

BMul(a, b) == IF a = <<>> THEN <<>> ELSE BMulFrom(a, b, 1)

\* a * 2^k
BShl(a, k) ==
    IF a = <<>> THEN <<>>
    ELSE BZeros(k \div LimbBits) \o BMulSmall(a, 2^(k % LimbBits))

\* a \div 2^k
BShr(a, k) ==
    LET q == k \div LimbBits
        r == k % LimbBits
    IN  BTrim([i \in 1..(Len(a) - q) |->
                  (BLimb(a, i + q) \div 2^r)
                      + (BLimb(a, i + q + 1) % 2^r) * 2^(LimbBits - r)])

\* the number of binary digits of a
BBitLen(a) ==
    IF a = <<>> THEN 0
    ELSE LimbBits * (Len(a) - 1)
             + (CHOOSE k \in 1..LimbBits : 2^(k - 1) <= a[Len(a)] /\ a[Len(a)] < 2^k)

BOdd(a) == a # <<>> /\ a[1] % 2 = 1

\* q or q + 1 as the part cut off is below or above the half (c is -1 or 1),
\* the even one of the two when it is the half (c is 0)
BRoundUp(q, c) == IF c > 0 \/ (c = 0 /\ BOdd(q)) THEN BAdd(q, <<1>>) ELSE q

\* a / 2^k rounded, q being a \div 2^k
BRoundFrom(a, q, k) == BRoundUp(q, BCmp(BSub(a, BShl(q, k)), BShl(<<1>>, k - 1)))

\* a / 2^k rounded to the nearest whole number, a tie to the even one
BRoundShr(a, k) == IF k = 0 THEN a ELSE BRoundFrom(a, BShr(a, k), k)

(***************************************************************************)
(* Doubles (the float of the code): [s, m, e] is s * m * 2^e, s 1 or -1,   *)
(* m a number of 53 binary digits; 0 is [s |-> 1, m |-> <<>>, e |-> 0].    *)
(* The results are rounded to the nearest double, a tie to the even one.   *)
(* Neither the numbers below 2^-1022 nor those above 2^1023 occur.         *)
(***************************************************************************)
\* 52 digits stored and the leading 1
Digits == 52 + 1
FZero == [s |-> 1, m |-> <<>>, e |-> 0]

\* s * q * 2^e for q of 53 digits, or of 54 after a rounding carried over
FCarry(s, q, e) ==
    IF BBitLen(q) > Digits THEN [s |-> s, m |-> BShr(q, 1), e |-> e + 1]
    ELSE [s |-> s, m |-> q, e |-> e]

\* the double nearest to s * m * 2^e, m of n binary digits
FPackLen(s, m, e, n) ==
    IF n = 0 THEN FZero
    ELSE IF n <= Digits THEN [s |-> s, m |-> BShl(m, Digits - n), e |-> e - (Digits - n)]
    ELSE FCarry(s, BRoundShr(m, n - Digits), e + (n - Digits))

\* the double nearest to s * m * 2^e, m of any size
FPack(s, m, e) == FPackLen(s, m, e, BBitLen(m))

\* float(n) of a whole number n
FInt(n) == FPack(IF n < 0 THEN -1 ELSE 1, BInt(IF n < 0 THEN -n ELSE n), 0)

\* the digits of r / d after the point in base 2^14, n of them, the highest
\* first, followed by the remainder; 0 <= r < d < 2^17
RECURSIVE FracLimbs(_, _, _)
FracLimbs(r, d, n) ==
    IF n = 0 THEN <<r>>
    ELSE <<(r * LimbBase) \div d>> \o FracLimbs((r * LimbBase) % d, d, n - 1)

Reverse(a) == [i \in 1..Len(a) |-> a[Len(a) + 1 - i]]

\* n / d of two whole numbers, 0 < d < 2^17: the double nearest to the
\* quotient
FRatio(n, d) ==
    LET a == IF n < 0 THEN -n ELSE n
        f == FracLimbs(a % d, d, 6)
        q == BTrim(Reverse(SubSeq(f, 1, 6)) \o BInt(a \div d))
        sticky == IF f[7] = 0 THEN 0 ELSE 1
    IN  FPack(IF n < 0 THEN -1 ELSE 1, BAdd(BShl(q, 1), BInt(sticky)), -(6 * LimbBits) - 1)

FNeg(x) == IF x.m = <<>> THEN x ELSE [x EXCEPT !.s = -x.s]

\* -1, 0 or 1 as |x| is below, equal to or above |y|
FCmpAbs(x, y) ==
    IF x.m = <<>> \/ y.m = <<>>
    THEN (IF x.m = y.m THEN 0 ELSE IF x.m = <<>> THEN -1 ELSE 1)
    ELSE IF x.e # y.e THEN (IF x.e < y.e THEN -1 ELSE 1)
    ELSE BCmp(x.m, y.m)

FSign(x) == IF x.m = <<>> THEN 0 ELSE x.s

\* x < y
FLt(x, y) ==
    IF FSign(x) # FSign(y) THEN FSign(x) < FSign(y)
    ELSE IF FSign(x) >= 0 THEN FCmpAbs(x, y) < 0
    ELSE FCmpAbs(x, y) > 0

FLe(x, y) == ~FLt(y, x)

\* max(x, y) of the language: y when it is above x, x otherwise
FMax(x, y) == IF FLt(x, y) THEN y ELSE x

\* s * a + t * b, c being -1, 0 or 1 as a is below, equal to or above b
FAddSigned(s, a, t, b, c) ==
    IF s = t THEN [s |-> s, m |-> BAdd(a, b)]
    ELSE IF c >= 0 THEN [s |-> s, m |-> BSub(a, b)]
    ELSE [s |-> t, m |-> BSub(b, a)]

FAddAligned(s, a, t, b) == FAddSigned(s, a, t, b, BCmp(a, b))

FPackSum(r, e) == FPack(r.s, r.m, e)

\* x + y, both written with the exponent e
FAddAt(x, y, e) ==
    FPackSum(FAddAligned(x.s, BShl(x.m, x.e - e), y.s, BShl(y.m, y.e - e)), e)

\* x + y
FAdd(x, y) ==
    IF x.m = <<>> THEN y
    ELSE IF y.m = <<>> THEN x
    ELSE IF x.e - y.e > Digits + 2 THEN x
    ELSE IF y.e - x.e > Digits + 2 THEN y
    ELSE FAddAt(x, y, IF x.e < y.e THEN x.e ELSE y.e)

FSub(x, y) == FAdd(x, FNeg(y))

\* x * y
FMul(x, y) ==
    IF x.m = <<>> \/ y.m = <<>> THEN FZero
    ELSE FPack(x.s * y.s, BMul(x.m, y.m), x.e + y.e)

\* int(x): the whole part of x, for |x| < 2^31
FTrunc(x) ==
    IF x.m = <<>> \/ -x.e >= Digits THEN 0
    ELSE x.s * BToInt(IF x.e >= 0 THEN BShl(x.m, x.e) ELSE BShr(x.m, -x.e))

\* x * k for a whole number 1 <= k <= 2^16, rounded to the nearest whole
\* number, a tie to the even one: what round(x, 3) and the format %.3f
\* print for k = 1000, and round(x) for k = 1
FRound(x, k) ==
    IF x.m = <<>> \/ -x.e > Digits + 20 THEN 0
    ELSE LET n == BMulSmall(x.m, k)
         IN  x.s * BToInt(IF x.e >= 0 THEN BShl(n, x.e) ELSE BRoundShr(n, -x.e))

\* the float of a time given in ticks (a twelve-thousandth of a second): what
\* the code reads from a number of a JSON file or of a configuration
Sec(ticks) == FRatio(ticks, TicksPerSec)

(***************************************************************************)
(* Strings                                                                 *)
(***************************************************************************)
\* U+000B, one of the separators U+001C to U+001F, and one of the blanks
\* above U+007F (U+0085, U+00A0, U+2003, ...), each written as a symbol of
\* its own
VTab == "<vtab>"
InfoSep == "<info-sep>"
Nbsp == "<nbsp>"
\* what str.strip(), str.split() and \s of re take as whitespace: the
\* characters of str.isspace
Whitespace == {" ", "\t", "\n", "\r", "\f", VTab, InfoSep, Nbsp}

Rep(c, n) == [i \in 1..n |-> c]

RECURSIVE LStrip(_, _)
LStrip(s, set) ==
    IF s # <<>> /\ Head(s) \in set THEN LStrip(Tail(s), set) ELSE s

RECURSIVE RStrip(_, _)
RStrip(s, set) ==
    IF s # <<>> /\ s[Len(s)] \in set THEN RStrip(SubSeq(s, 1, Len(s) - 1), set) ELSE s

\* str.strip(chars)
StripChars(s, set) == RStrip(LStrip(s, set), set)

\* str.strip()
Strip(s) == StripChars(s, Whitespace)

\* the characters of s that are not whitespace, in order
NoSpace(s) == SelectSeq(s, LAMBDA c : c \notin Whitespace)

RECURSIVE Concat(_)
Concat(ss) == IF ss = <<>> THEN <<>> ELSE Head(ss) \o Concat(Tail(ss))

RECURSIVE SumLen(_)
SumLen(ss) == IF ss = <<>> THEN 0 ELSE Len(Head(ss)) + SumLen(Tail(ss))

\* the number of characters of s that are in set
Count(s, set) == Len(SelectSeq(s, LAMBDA c : c \in set))

\* the elements of s at the indexes where keep holds, in order
Filter(s, keep(_)) ==
    LET marked == [i \in 1..Len(s) |-> <<s[i], keep(i)>>]
        kept == SelectSeq(marked, LAMBDA p : p[2])
    IN  [i \in 1..Len(kept) |-> kept[i][1]]

\* the length of the run of characters of set that ends at index i of s
RunLenTo(s, i, set) ==
    LET before == {j \in 1..i : s[j] \notin set}
    IN  i - (IF before = {} THEN 0 ELSE CHOOSE j \in before : \A k \in before : k <= j)

\* str.replace("**", ""): the pairs of each run of stars go, left to right
RemoveStars(s) ==
    Filter(s, LAMBDA i : \/ s[i] # "*"
                         \/ /\ (i = Len(s) \/ s[i + 1] # "*")
                            /\ RunLenTo(s, i, {"*"}) % 2 = 1)

\* re.sub(r"\s+", " ", t): every run of whitespace becomes one space
CollapseSpace(s) ==
    LET first == Filter(s, LAMBDA i : s[i] \notin Whitespace
                                      \/ i = 1 \/ s[i - 1] \notin Whitespace)
    IN  [i \in 1..Len(first) |-> IF first[i] \in Whitespace THEN " " ELSE first[i]]

(***************************************************************************)
(* clean_text (src/timeline_to_subs.py:105-109)                            *)
(***************************************************************************)
clean_text(raw_text) ==
    Strip(StripChars(CollapseSpace(RemoveStars(raw_text)), {" ", ","}))

(***************************************************************************)
(* wrap_text_for_srt (src/timeline_to_subs.py:111-128) and                 *)
(* wrap_ass (src/srt_to_ass.py:182-202)                                    *)
(*                                                                         *)
(* A wrapped caption is the sequence of its lines (the code joins them     *)
(* with a line break; no line holds one, str.split() having removed it).   *)
(***************************************************************************)
MaxLines == 3
WidenSrt == 8

\* the index of the first whitespace of s, Len(s) + 1 when there is none
FirstSpace(s) ==
    LET W == {i \in 1..Len(s) : s[i] \in Whitespace}
    IN  IF W = {} THEN Len(s) + 1 ELSE CHOOSE i \in W : \A j \in W : i <= j

\* str.split(): the maximal runs of characters that are not whitespace
RECURSIVE Words(_)
Words(s) ==
    LET t == LStrip(s, Whitespace)
        k == FirstSpace(t)
    IN  IF t = <<>> THEN <<>>
        ELSE <<SubSeq(t, 1, k - 1)>> \o Words(SubSeq(t, k, Len(t)))

\* " ".join(ss)
RECURSIVE JoinSpace(_)
JoinSpace(ss) ==
    IF ss = <<>> THEN <<>>
    ELSE IF Len(ss) = 1 THEN ss[1]
    ELSE ss[1] \o <<" ">> \o JoinSpace(Tail(ss))

\* mutant of GreedySrt: the separating space is not counted
RECURSIVE GreedySrt_NoSep(_, _, _, _, _)
GreedySrt_NoSep(words, i, cur, lines, max_len) ==
    IF i > Len(words)
    THEN IF cur # <<>> THEN Append(lines, cur) ELSE lines
    ELSE LET w == words[i]
             add_len == Len(w)
         IN  IF Len(cur) + add_len > max_len
             THEN GreedySrt_NoSep(words, i + 1, w,
                                  IF cur # <<>> THEN Append(lines, cur) ELSE lines, max_len)
             ELSE GreedySrt_NoSep(words, i + 1,
                                  cur \o (IF cur # <<>> THEN <<" ">> ELSE <<>>) \o w,
                                  lines, max_len)

\* timeline_to_subs.py lines 113-124: one greedy pass over the words
RECURSIVE GreedySrt(_, _, _, _, _)
GreedySrt(words, i, cur, lines, max_len) ==
    IF i > Len(words)
    THEN IF cur # <<>> THEN Append(lines, cur) ELSE lines
    ELSE LET w == words[i]
             add_len == Len(w) + (IF cur # <<>> THEN 1 ELSE 0)
         IN  IF Len(cur) + add_len > max_len
             THEN GreedySrt(words, i + 1, w,
                            IF cur # <<>> THEN Append(lines, cur) ELSE lines, max_len)
             ELSE GreedySrt(words, i + 1,
                            cur \o (IF cur # <<>> THEN <<" ">> ELSE <<>>) \o w,
                            lines, max_len)

\* timeline_to_subs.py lines 111-128: widen by 8 and wrap again while the
\* pass gives more than max_lines lines
RECURSIVE wrap_text_for_srt(_, _)
wrap_text_for_srt(text, max_len) ==
    LET lines == GreedySrt(Words(text), 1, <<>>, <<>>, max_len) IN
    IF Len(lines) > MaxLines
    THEN wrap_text_for_srt(JoinSpace(lines), max_len + WidenSrt)
    ELSE lines

\* mutant of GreedyAss: the word that overflows the line is not carried over
RECURSIVE GreedyAss_DropsOverflow(_, _, _, _, _, _)
GreedyAss_DropsOverflow(words, i, cur, cur_len, out_lines, max_chars) ==
    IF i > Len(words)
    THEN IF cur # <<>> THEN Append(out_lines, JoinSpace(cur)) ELSE out_lines
    ELSE LET w == words[i]
             add == Len(w) + (IF cur # <<>> THEN 1 ELSE 0)
         IN  IF cur_len + add > max_chars /\ cur # <<>>
             THEN GreedyAss_DropsOverflow(words, i + 1, <<>>, 0,
                                          Append(out_lines, JoinSpace(cur)), max_chars)
             ELSE GreedyAss_DropsOverflow(words, i + 1, Append(cur, w), cur_len + add,
                                          out_lines, max_chars)

\* srt_to_ass.py lines 184-196: one greedy pass; cur is the list of the
\* words of the current line, cur_len its length
RECURSIVE GreedyAss(_, _, _, _, _, _)
GreedyAss(words, i, cur, cur_len, out_lines, max_chars) ==
    IF i > Len(words)
    THEN IF cur # <<>> THEN Append(out_lines, JoinSpace(cur)) ELSE out_lines
    ELSE LET w == words[i]
             add == Len(w) + (IF cur # <<>> THEN 1 ELSE 0)
         IN  IF cur_len + add > max_chars /\ cur # <<>>
             THEN GreedyAss(words, i + 1, <<w>>, Len(w),
                            Append(out_lines, JoinSpace(cur)), max_chars)
             ELSE GreedyAss(words, i + 1, Append(cur, w), cur_len + add,
                            out_lines, max_chars)

\* srt_to_ass.py line 201: int(max_chars_per_line * 1.2)
WidenAss(max_chars) == (max_chars * 12) \div 10

(***************************************************************************)
(* split_segment (src/timeline_to_subs.py:133-162)                         *)
(***************************************************************************)
\* the one character U+2026, written as a symbol of its own
Ellipsis == "<ellipsis>"
SplitPunct == {".", "!", "?", ";", ":", Ellipsis}
MinPartLen == 40
\* 0.6 s (line 157) and 0.1 s (line 135)
MinSubDur == FRatio(6, 10)
MinSegDur == FRatio(1, 10)

\* lines 142-145: the first index after `from` where the buffer is cut: a
\* punctuation mark at which the buffer (the characters from+1..i) holds at
\* least 40 characters; 0 when there is none
NextCut(text, from) ==
    LET C == {i \in (from + MinPartLen)..Len(text) : text[i] \in SplitPunct}
    IN  IF C = {} THEN 0 ELSE CHOOSE i \in C : \A j \in C : i <= j

\* lines 140-147: the loop over the characters, cut by cut
RECURSIVE PunctScan(_, _, _)
PunctScan(text, from, parts) ==
    LET cut == NextCut(text, from) IN
    IF cut = 0
    THEN IF from < Len(text)
         THEN Append(parts, Strip(SubSeq(text, from + 1, Len(text))))
         ELSE parts
    ELSE PunctScan(text, cut, Append(parts, Strip(SubSeq(text, from + 1, cut))))

\* mutant of FixedChunks: the range advances by step + 1, so the character
\* after each chunk is lost
FixedChunks_SkipOne(text, step) ==
    [k \in 1..((Len(text) + step) \div (step + 1)) |->
        SubSeq(text, (k - 1) * (step + 1) + 1,
               Min((k - 1) * (step + 1) + step, Len(text)))]

\* line 150: [text[i:i+step] for i in range(0, len(text), step)], step >= 1
FixedChunks(text, step) ==
    [k \in 1..((Len(text) + step - 1) \div step) |->
        SubSeq(text, (k - 1) * step + 1, Min(k * step, Len(text)))]

\* lines 139-150: the parts of an over-budget text
SplitParts(text, max_chars) ==
    LET parts == PunctScan(text, 0, <<>>) IN
    IF Len(parts) = 1 THEN FixedChunks(text, max_chars) ELSE parts

\* lines 156-157: sub_dur = max(0.6, dur * frac), frac = len(p) / total
SubDur(dur, plen, total) == FMax(MinSubDur, FMul(dur, FRatio(plen, total)))

\* lines 153-161: the time spans, the last part ending at start + dur
RECURSIVE Apportion(_, _, _, _, _, _)
Apportion(parts, i, acc, start, dur, total) ==
    IF i > Len(parts) THEN <<>>
    ELSE LET st == acc
             en == IF i = Len(parts) THEN FAdd(start, dur)
                   ELSE FAdd(st, SubDur(dur, Len(parts[i]), total))
         IN  <<[text |-> Strip(parts[i]), st |-> st, en |-> en]>>
             \o Apportion(parts, i + 1, en, start, dur, total)

\* start and end are doubles, as are the times of the result
split_segment(text0, start, end, max_chars) ==
    LET text == Strip(text0)
        dur == FMax(MinSegDur, FSub(end, start))
    IN  IF Len(text) <= max_chars
        THEN <<[text |-> text, st |-> start, en |-> end]>>
        ELSE LET parts == SplitParts(text, max_chars)
                 total == IF SumLen(parts) = 0 THEN 1 ELSE SumLen(parts)
             IN  Apportion(parts, 1, start, start, dur, total)

(***************************************************************************)
(* synthesize_times (src/timeline_to_subs.py:167-203)                      *)
(*                                                                         *)
(* A segment is a record [speaker, text, start, end]; start and end are    *)
(* <<>> when the field is missing and <<n>> for the number n (ticks).      *)
(* A configuration gives the rate in characters per second as <<n, d>>,    *)
(* the double n / d, d a power of 2, and the durations in ticks.           *)
(***************************************************************************)
StrongMarks == {".", "!", "?", Ellipsis}
SoftMarks == {",", ";", ":"}
BoostLen == 80

\* cfg.get(key, default) of lines 172-177 and 243-244 with no key set
DefaultCfg ==
    [cps |-> <<12, 1>>, min_dur |-> 14400, pause_strong |-> 4200, pause_soft |-> 2400,
     boost |-> 1800, max_line |-> 48, max_seg |-> 160]

\* round(x, 3) of a double x: the nearest millisecond, in ticks
RoundMs(x) == FRound(x, 1000) * TicksPerMs

\* line 185: len(text) / max(1.0, cps)
ReadingTime(n, cps) ==
    IF cps[1] < cps[2] THEN FInt(n) ELSE FRatio(n * cps[2], cps[1])

\* mutant of SynthDur: the floor at min_dur is left out
SynthDur_NoFloor(text, cfg) ==
    LET base == ReadingTime(Len(text), cfg.cps)
        strongs == Count(text, StrongMarks)
        softs == Count(text, SoftMarks)
        dur == FAdd(FAdd(base, FMul(FInt(strongs), Sec(cfg.pause_strong))),
                    FMul(FInt(softs), Sec(cfg.pause_soft)))
    IN  IF Count(text, {"?", "!"}) > 0 /\ Len(text) > BoostLen
        THEN FAdd(dur, Sec(cfg.boost)) ELSE dur

\* mutant of SynthDur: the soft marks are given the strong pause
SynthDur_SoftAsStrong(text, cfg) ==
    LET base == FMax(Sec(cfg.min_dur), ReadingTime(Len(text), cfg.cps))
        strongs == Count(text, StrongMarks)
        softs == Count(text, SoftMarks)
        dur == FAdd(FAdd(base, FMul(FInt(strongs), Sec(cfg.pause_strong))),
                    FMul(FInt(softs), Sec(cfg.pause_strong)))
    IN  IF Count(text, {"?", "!"}) > 0 /\ Len(text) > BoostLen
        THEN FAdd(dur, Sec(cfg.boost)) ELSE dur

\* lines 185-194: the duration of a cleaned, non-empty text
SynthDur(text, cfg) ==
    LET base == FMax(Sec(cfg.min_dur), ReadingTime(Len(text), cfg.cps))
        strongs == Count(text, StrongMarks)
        softs == Count(text, SoftMarks)
        dur == FAdd(FAdd(base, FMul(FInt(strongs), Sec(cfg.pause_strong))),
                    FMul(FInt(softs), Sec(cfg.pause_soft)))
    IN  IF Count(text, {"?", "!"}) > 0 /\ Len(text) > BoostLen
        THEN FAdd(dur, Sec(cfg.boost)) ELSE dur

\* mutant of SynthSeg: the end is the duration alone, not start + duration
SynthSeg_EndIsDur(s, t, cfg) ==
    [s EXCEPT !.start = <<RoundMs(t)>>,
              !.end = <<RoundMs(SynthDur(clean_text(s.text), cfg))>>]

\* lines 196-200: the segment with its synthetic times at clock t
SynthSeg(s, t, cfg) ==
    [s EXCEPT !.start = <<RoundMs(t)>>,
              !.end = <<RoundMs(FAdd(t, SynthDur(clean_text(s.text), cfg)))>>]

\* lines 179-203: the whole loop from index i at clock t
RECURSIVE SynthFrom(_, _, _, _)
SynthFrom(segs, i, t, cfg) ==
    IF i > Len(segs) THEN <<>>
    ELSE LET text == clean_text(segs[i].text) IN
         IF text = <<>> THEN SynthFrom(segs, i + 1, t, cfg)
         ELSE <<SynthSeg(segs[i], t, cfg)>>
              \o SynthFrom(segs, i + 1, FAdd(t, SynthDur(text, cfg)), cfg)

synthesize_times(segs, cfg) == SynthFrom(segs, 1, FZero, cfg)

(***************************************************************************)
(* Letter case (str.lower, str.upper) over the letters of the model        *)
(***************************************************************************)
EAcuteLower == "<e-acute>"
EAcuteUpper == "<E-acute>"
LowerLetters ==
    <<"a", "b", "c", "d", "e", "f", "g", "h", "i", "j", "k", "l", "m", "n", "o",
      "p", "q", "r", "s", "t", "u", "v", "w", "x", "y", "z", EAcuteLower>>
UpperLetters ==
    <<"A", "B", "C", "D", "E", "F", "G", "H", "I", "J", "K", "L", "M", "N", "O",
      "P", "Q", "R", "S", "T", "U", "V", "W", "X", "Y", "Z", EAcuteUpper>>

LowerOf(c) ==
    IF \E i \in 1..Len(UpperLetters) : UpperLetters[i] = c
    THEN LowerLetters[CHOOSE i \in 1..Len(UpperLetters) : UpperLetters[i] = c]
    ELSE c

UpperOf(c) ==
    IF \E i \in 1..Len(LowerLetters) : LowerLetters[i] = c
    THEN UpperLetters[CHOOSE i \in 1..Len(LowerLetters) : LowerLetters[i] = c]
    ELSE c

Lower(s) == [i \in 1..Len(s) |-> LowerOf(s[i])]
Upper(s) == [i \in 1..Len(s) |-> UpperOf(s[i])]

\* str.startswith
StartsWith(s, p) == Len(p) <= Len(s) /\ SubSeq(s, 1, Len(p)) = p

\* str.find: the 0-based index of the first occurrence of sub in s, or -1
Find(s, sub) ==
    LET P == {i \in 0..(Len(s) - Len(sub)) : SubSeq(s, i + 1, i + Len(sub)) = sub}
    IN  IF P = {} THEN -1 ELSE CHOOSE i \in P : \A j \in P : i <= j

\* sub in s
Contains(s, sub) == Find(s, sub) >= 0

\* s is a suffix of t
IsSuffix(s, t) == Len(s) <= Len(t) /\ SubSeq(t, Len(t) - Len(s) + 1, Len(t)) = s

(***************************************************************************)
(* strip_meta (src/srt_to_ass.py:73-82)                                    *)
(***************************************************************************)
\* Characters written as symbols of their own: U+1F600 and U+1F525, above
\* U+FFFF and in U+1F300-U+1FAFF; U+2600, below U+FFFF and in U+2600-U+27BF;
\* U+1D11E, above U+FFFF and in neither range
Emoji == "<emoji>"
Fire == "<fire>"
Sun == "<sun>"
Clef == "<clef>"

\* what EMOJI_RE matches (lines 73-75), and the ranges of src/audio.py:103-107
EmojiChars == {Emoji, Fire, Sun}

\* what _emoji_re of src/timeline_to_subs.py:78 matches: U+10000 and above
AstralChars == {Emoji, Fire, Clef}

\* the first match of TAG_RE, \[[^\]]+\]: an opening bracket whose next
\* closing bracket is at least two places further; <<>> when there is none
FirstTag(s) ==
    LET Close(i) == {j \in (i + 1)..Len(s) : s[j] = "]"}
        NextClose(i) == CHOOSE j \in Close(i) : \A k \in Close(i) : j <= k
        Opens == {i \in 1..Len(s) :
                    s[i] = "[" /\ Close(i) # {} /\ NextClose(i) >= i + 2}
    IN  IF Opens = {} THEN <<>>
        ELSE LET i == CHOOSE i \in Opens : \A k \in Opens : i <= k
             IN  <<i, NextClose(i)>>

\* TAG_RE.sub("", s)
RECURSIVE StripTags(_)
StripTags(s) ==
    LET m == FirstTag(s) IN
    IF m = <<>> THEN s
    ELSE SubSeq(s, 1, m[1] - 1) \o StripTags(SubSeq(s, m[2] + 1, Len(s)))

\* re.sub(r"\s{2,}", " ", s): a run of two or more whitespace becomes a space
CollapseRuns(s) ==
    LET first == Filter([i \in 1..Len(s) |-> <<i, s[i]>>],
                        LAMBDA i : s[i] \notin Whitespace
                                   \/ i = 1 \/ s[i - 1] \notin Whitespace)
    IN  [k \in 1..Len(first) |->
            LET i == first[k][1] IN
            IF s[i] \in Whitespace /\ i < Len(s) /\ s[i + 1] \in Whitespace
            THEN " " ELSE s[i]]

strip_meta(s) ==
    Strip(CollapseRuns(SelectSeq(StripTags(s), LAMBDA c : c \notin EmojiChars)))

(***************************************************************************)
(* difflib.SequenceMatcher(None, a, b).ratio(), as used at                 *)
(* src/srt_to_ass.py:111, for b shorter than 200 characters (no autojunk)  *)
(***************************************************************************)
\* the longest k with a[i..i+k-1] = b[j..j+k-1] inside a[..ahi], b[..bhi]
CommonLen(a, b, i, j, ahi, bhi) ==
    LET n == Min(ahi - i + 1, bhi - j + 1)
        K == {k \in 0..n : \A d \in 0..(k - 1) : a[i + d] = b[j + d]}
    IN  CHOOSE k \in K : \A m \in K : m <= k

\* find_longest_match: <<i, j, k>>, k maximal, then i minimal, then j minimal
FindLongestMatch(a, b, alo, ahi, blo, bhi) ==
    LET C == {<<i, j, CommonLen(a, b, i, j, ahi, bhi)>> : i \in alo..ahi, j \in blo..bhi}
        Better(x, y) ==
            \/ x[3] > y[3]
            \/ x[3] = y[3] /\ x[1] < y[1]
            \/ x[3] = y[3] /\ x[1] = y[1] /\ x[2] <= y[2]
    IN  IF C = {} THEN <<alo, blo, 0>>
        ELSE CHOOSE x \in C : \A y \in C : Better(x, y)

\* get_matching_blocks: the total size of the matching blocks
RECURSIVE MatchTotal(_, _, _, _, _, _)
MatchTotal(a, b, alo, ahi, blo, bhi) ==
    IF alo > ahi \/ blo > bhi THEN 0
    ELSE LET m == FindLongestMatch(a, b, alo, ahi, blo, bhi) IN
         IF m[3] = 0 THEN 0
         ELSE m[3] + MatchTotal(a, b, alo, m[1] - 1, blo, m[2] - 1)
                   + MatchTotal(a, b, m[1] + m[3], ahi, m[2] + m[3], bhi)

\* ratio() = 2.0 * matches / (len(a) + len(b)), as the fraction <<num, den>>
Ratio(a, b) ==
    IF Len(a) + Len(b) = 0 THEN <<1, 1>>
    ELSE <<2 * MatchTotal(a, b, 1, Len(a), 1, Len(b)), Len(a) + Len(b)>>

(***************************************************************************)
(* Attribution (src/srt_to_ass.py:101-177).  The names of the two          *)
(* speakers are the arguments hector and aura of the call, by default      *)
(* those of line 135; buffers is keyed by role.                            *)
(***************************************************************************)
DefaultNames ==
    [hector |-> <<"H", EAcuteLower, "c", "t", "o", "r">>, aura |-> <<"A", "u", "r", "a">>]
HectorName == as_names.hector
AuraName == as_names.aura
\* mutant of NarratorUntilCs: the bound is read in tenths of a second
NarratorUntilCs_Tenths == 5 * 10
NarratorUntilCs == 5 * 100
FragmentLen == 32

\* lines 106-112: the score of one buffer
Score(caption, buf) ==
    IF buf = <<>> THEN <<0, 1>> ELSE Ratio(Lower(caption), Lower(buf))

\* mutant of best_speaker_for_caption: the lowest score wins
best_speaker_for_caption_Min(caption, buffers) ==
    LET h == Score(caption, buffers.hector)
        a == Score(caption, buffers.aura)
    IN  IF h[1] * a[2] <= a[1] * h[2] THEN HectorName ELSE AuraName

\* lines 101-115: max() keeps the first of equal scores, and the buffers
\* are held in the order hector, aura
best_speaker_for_caption(caption, buffers) ==
    LET h == Score(caption, buffers.hector)
        a == Score(caption, buffers.aura)
    IN  IF h[1] * a[2] >= a[1] * h[2] THEN HectorName ELSE AuraName

\* lines 117-121
RECURSIVE JoinLines(_, _)
JoinLines(transcript, name) ==
    IF transcript = <<>> THEN <<>>
    ELSE LET rest == JoinLines(Tail(transcript), name)
             l == Head(transcript)
         IN  IF StartsWith(Lower(l[1]), Lower(name))
             THEN IF \E k \in 1..Len(Tail(transcript)) :
                        StartsWith(Lower(Tail(transcript)[k][1]), Lower(name))
                  THEN l[2] \o <<" ">> \o rest
                  ELSE l[2]
             ELSE rest

build_speaker_buffers(transcript) ==
    [hector |-> JoinLines(transcript, HectorName),
     aura |-> JoinLines(transcript, AuraName)]

\* mutant of consume_from_buffer: the slice keeps the head of the buffer
consume_from_buffer_KeepHead(buffer, used_fragment) ==
    LET pos == Find(Lower(buffer), Lower(SubSeq(used_fragment, 1,
                                                Min(FragmentLen, Len(used_fragment)))))
        skip == Max(0, Min(Len(buffer), (Len(used_fragment) * 8) \div 10))
    IN  IF pos >= 0
        THEN SubSeq(buffer, 1, Min(Len(buffer), pos + Len(used_fragment)))
        ELSE SubSeq(buffer, 1, skip)

\* lines 123-133
consume_from_buffer(buffer, used_fragment) ==
    LET pos == Find(Lower(buffer), Lower(SubSeq(used_fragment, 1,
                                                Min(FragmentLen, Len(used_fragment)))))
        skip == Max(0, Min(Len(buffer), (Len(used_fragment) * 8) \div 10))
    IN  IF pos >= 0
        THEN SubSeq(buffer, pos + Len(used_fragment) + 1, Len(buffer))
        ELSE SubSeq(buffer, skip + 1, Len(buffer))

\* lines 164-173: the style and the buffers after a buffer match
MatchOutcome(txt_clean, buffers, last_style) ==
    LET winner == best_speaker_for_caption(txt_clean, buffers) IN
    IF StartsWith(Lower(winner), Lower(HectorName))
    THEN [sty |-> "Hector", how |-> "match",
          buffers |-> [buffers EXCEPT !.hector = consume_from_buffer(@, txt_clean)]]
    ELSE IF StartsWith(Lower(winner), Lower(AuraName))
    THEN [sty |-> "Aura", how |-> "match",
          buffers |-> [buffers EXCEPT !.aura = consume_from_buffer(@, txt_clean)]]
    ELSE [sty |-> IF last_style = "Hector" THEN "Aura" ELSE "Hector",
          how |-> "alternate", buffers |-> buffers]

\* mutant of NameShortcut: the speaker who is not named is chosen
NameShortcut_Other(txt_clean) ==
    LET low == Lower(txt_clean)
        h == Contains(low, Lower(HectorName))
        a == Contains(low, Lower(AuraName))
    IN  IF h /\ ~a THEN "Aura" ELSE IF a /\ ~h THEN "Hector" ELSE ""

\* lines 158-162: "Hector", "Aura", or "" when the shortcut does not apply
NameShortcut(txt_clean) ==
    LET low == Lower(txt_clean)
        h == Contains(low, Lower(HectorName))
        a == Contains(low, Lower(AuraName))
    IN  IF h /\ ~a THEN "Hector" ELSE IF a /\ ~h THEN "Aura" ELSE ""

(***************************************************************************)
(* norm_speaker, strip_emojis and the time stamps                          *)
(* (src/timeline_to_subs.py:45-103)                                        *)
(***************************************************************************)
\* lines 89-90: NFD, then the combining marks dropped
StripAccentOf(c) ==
    IF c = EAcuteLower THEN "e" ELSE IF c = EAcuteUpper THEN "E" ELSE c
strip_accents(s) == [i \in 1..Len(s) |-> StripAccentOf(s[i])]

Chars_HECTOR == <<"H", "E", "C", "T", "O", "R">>
Chars_AURA == <<"A", "U", "R", "A">>

\* mutant of norm_speaker: the accents are kept
norm_speaker_KeepAccents(raw_speaker) ==
    IF raw_speaker = <<>> THEN "NARRATOR"
    ELSE LET r == Strip(RStrip(Strip(Upper(raw_speaker)), {":"})) IN
         IF StartsWith(r, Chars_HECTOR) THEN "HECTOR"
         ELSE IF StartsWith(r, Chars_AURA) THEN "AURA"
         ELSE "NARRATOR"

\* lines 92-103
norm_speaker(raw_speaker) ==
    IF raw_speaker = <<>> THEN "NARRATOR"
    ELSE LET r == Strip(RStrip(Strip(Upper(strip_accents(raw_speaker))), {":"})) IN
         IF StartsWith(r, Chars_HECTOR) \/ r = <<"H", EAcuteUpper, "C", "T", "O", "R">>
         THEN "HECTOR"
         ELSE IF StartsWith(r, Chars_AURA) THEN "AURA"
         ELSE "NARRATOR"

\* mutant of StyleOf: the role itself is written as the style
StyleOf_Role(speaker) == speaker

\* lines 289-293
StyleOf(speaker) ==
    IF speaker = "HECTOR" THEN "Hector" ELSE IF speaker = "AURA" THEN "Aura" ELSE "Base"

\* lines 80-84: the characters above U+FFFF go
strip_emojis(s) == SelectSeq(s, LAMBDA c : c \notin AstralChars)

\* lines 45-50: <<h, m, s, ms>> of a double; sec % 60 is exact on doubles
\* and is printed with 3 decimals, so 59.9996 prints as 60,000
fmt_srt_ts(sec0) ==
    LET sec == IF FLt(sec0, FZero) THEN FZero ELSE sec0
        h == FTrunc(sec) \div 3600
        m == (FTrunc(sec) \div 60) % 60
        ms == FRound(sec, 1000) - (FTrunc(sec) \div 60) * 60 * 1000
    IN  <<h, m, ms \div 1000, ms % 1000>>

\* lines 52-64: <<h, m, s, cs>> of a double, the hundredths rounded and
\* carried
fmt_ass_ts(sec0) ==
    LET sec == IF FLt(sec0, FZero) THEN FZero ELSE sec0
        h == FTrunc(sec) \div 3600
        m == (FTrunc(sec) \div 60) % 60
        s == FTrunc(sec) % 60
        cs == FRound(FMul(FSub(sec, FInt(FTrunc(sec))), FInt(100)), 1)
    IN  IF cs # 100 THEN <<h, m, s, cs>>
        ELSE IF s + 1 # 60 THEN <<h, m, s + 1, 0>>
        ELSE IF m + 1 # 60 THEN <<h, m + 1, 0, 0>>
        ELSE <<h + 1, 0, 0, 0>>

(***************************************************************************)
(* build_from_timeline (src/timeline_to_subs.py:208-307)                   *)
(*                                                                         *)
(* The content of the input file is a JSON value [kind, items, seg]:       *)
(*   kind   "list", "object", "string", "number", "bool", "null", or       *)
(*          "malformed" for a text that is not JSON;                       *)
(*   items  what iterating the value yields: the elements of a list, the   *)
(*          characters of a string, the keys of an object;                 *)
(*   seg    for an object, <<v>> when it has the key "segments" with the   *)
(*          value v, and <<>> when it has not.                             *)
(* An element is [kind, id, speaker, text, start, end]: kind "record" for  *)
(* a JSON object (a missing key "text" or "speaker" reads as the empty     *)
(* string; start and end are <<t>> for a number of t ticks and for a      *)
(* boolean, which is the number 0 or 1 for the code, and <<>> when missing *)
(* or of another type), any other kind for a value that is not an object.  *)
(* id is the position of the element in the input, kept by dict(s) like    *)
(* every key of the record.                                                *)
(***************************************************************************)
Node(kind, items, seg) == [kind |-> kind, items |-> items, seg |-> seg]
EmptyList == Node("list", <<>>, <<>>)

NonRecord(kind, i) ==
    [kind |-> kind, id |-> i, speaker |-> <<>>, text |-> <<>>, start |-> <<>>, end |-> <<>>]

\* mutant of SegsNode: an object without "segments" is iterated itself
SegsNode_NoDefault(r) ==
    IF r.kind = "object" /\ r.seg # <<>> THEN r.seg[1] ELSE r

\* lines 214-217: raw.get("segments", []) of an object, raw itself otherwise
SegsNode(r) ==
    IF r.kind = "object"
    THEN IF r.seg = <<>> THEN EmptyList ELSE r.seg[1]
    ELSE r

\* line 222: for s in segs
Iterable(node) == node.kind \in {"list", "string", "object"}

\* lines 224 and 278, isinstance(st, (int, float)) of a JSON value [kind, v]:
\* <<t>> for a number of v ticks and for a boolean (v is 0 for false and 1
\* for true, the int that the boolean is), <<>> for a missing key and for
\* any other type
NumberOf(j) ==
    IF j.kind = "number" THEN <<j.v>>
    ELSE IF j.kind = "bool" THEN <<j.v * TicksPerSec>>
    ELSE <<>>

\* lines 224 and 278: start and end are numbers and end > start
ValidTiming(s) == s.start # <<>> /\ s.end # <<>> /\ s.end[1] > s.start[1]

\* mutant of WarnsEmpty: the test is inverted
WarnsEmpty_Inverted(blocks) == blocks # <<>>

\* line 302
WarnsEmpty(blocks) == blocks = <<>>

\* lines 259-261: the styles the header of the styled document declares
DeclaredStyles == {"Base", "Hector", "Aura"}

\* mutant of NextIdx: the number advances once for a segment
NextIdx_PerSegment(i, n) == i + 1

\* lines 283 and 300: idx += 1 for each of the n sub-captions of a segment
NextIdx(i, n) == i + n

\* lines 285-300: the plain block and the styled event of one sub-caption
SrtBlock(n, sub, max_line) ==
    [idx |-> n, start |-> fmt_srt_ts(sub.st), end |-> fmt_srt_ts(sub.en),
     text |-> wrap_text_for_srt(sub.text, max_line)]

\* mutant of AssEvent: the end stamp is taken from the start
AssEvent_EndFromStart(sub, speaker, max_line) ==
    LET srt_text == wrap_text_for_srt(sub.text, max_line) IN
    [start |-> fmt_ass_ts(sub.st), end |-> fmt_ass_ts(sub.st), style |-> StyleOf(speaker),
     text |-> [i \in 1..Len(srt_text) |-> strip_emojis(srt_text[i])]]

AssEvent(sub, speaker, max_line) ==
    LET srt_text == wrap_text_for_srt(sub.text, max_line) IN
    [start |-> fmt_ass_ts(sub.st), end |-> fmt_ass_ts(sub.en), style |-> StyleOf(speaker),
     text |-> [i \in 1..Len(srt_text) |-> strip_emojis(srt_text[i])]]

(***************************************************************************)
(* Inputs: texts built from blocks, a run of one letter and an ending      *)
(***************************************************************************)
Letters == <<"a", "b", "c", "d">>
RunLens == {2, 38, 39, 90}
Enders == {<<>>, <<".">>, <<".", " ">>, <<",", " ">>}
Blocks(k) == {Rep(Letters[k], n) \o e : n \in RunLens, e \in Enders}

RECURSIVE TextsOf(_, _)
TextsOf(k, n) ==
    IF k > n THEN {<<>>}
    ELSE {b \o t : b \in Blocks(k), t \in TextsOf(k + 1, n)}

Texts == UNION {TextsOf(1, n) : n \in 1..MaxBlocks}

\* utterances of 400 characters: without punctuation, with one early mark,
\* with a mark every 40 characters, with a mark at 160, with a mark at 200
\* and at 400, and in words of 9 letters
LongTexts ==
    {Rep("a", 400),
     Rep("a", 41) \o <<".">> \o Rep("b", 358),
     Concat([i \in 1..10 |-> Rep("a", 39) \o <<".">>]),
     Rep("a", 159) \o <<".">> \o Rep("b", 240),
     Rep("a", 199) \o <<".">> \o Rep("b", 199) \o <<".">>,
     Concat([i \in 1..40 |-> Rep("c", 9) \o <<" ">>])}

\* (start, end) of an utterance, in ticks
Spans == {<<0, 120000>>, <<18000, 24000>>, <<6000, 6600>>, <<12000, 30000>>}
SegBudgets == {50, 160}

\* the texts of 45 characters or less, split with a budget of 3 characters
TightTexts == {t \in Texts : Len(t) <= 45}

(***************************************************************************)
(* SpecSplit: one call of split_segment                                    *)
(***************************************************************************)
SplitIdle ==
    /\ sp_pc = "idle" /\ sp_text = <<>> /\ sp_start = 0 /\ sp_end = 0 /\ sp_max = 0
    /\ sp_path = "none" /\ sp_parts = <<>> /\ sp_out = <<>>

SynthIdle ==
    /\ sy_pc = "idle" /\ sy_segs = <<>> /\ sy_cfg = DefaultCfg
    /\ sy_i = 0 /\ sy_t = FZero /\ sy_out = <<>>

WrapIdle ==
    /\ w_pc = "idle" /\ w_fn = "none" /\ w_in = <<>> /\ w_cfg_width = 0 /\ w_text = <<>>
    /\ w_width = 0 /\ w_lines = <<>>

BuildIdle ==
    /\ pc = "idle" /\ raw = EmptyList /\ b_cfg = DefaultCfg /\ b_segs = EmptyList
    /\ ck_i = 0 /\ needs_synth = FALSE /\ em_i = 0 /\ idx = 0 /\ subs = <<>>
    /\ srt_blocks = <<>> /\ ass_events = <<>> /\ exc = "none" /\ warned = FALSE
    /\ srt_file = <<>> /\ ass_file = <<>>

NormIdle == n_pc = "idle" /\ n_raw = <<>> /\ n_role = "none"

AudioIdle ==
    /\ a_pc = "idle" /\ a_pairs = <<>> /\ a_allow = FALSE /\ a_i = 0
    /\ a_chunks = <<>> /\ a_durs = <<>> /\ a_sidecar = <<>> /\ a_timeline = <<>>

WhisperIdle ==
    /\ wh_pc = "idle" /\ wh_args = "missing" /\ wh_audio = "absent" /\ wh_polls = 0
    /\ wh_same = FALSE /\ wh_srt = "absent" /\ wh_tried = <<>> /\ wh_status = -1

AssignIdle ==
    /\ as_pc = "idle" /\ as_items = <<>> /\ as_transcript = <<>> /\ as_k = 0
    /\ as_buffers = [hector |-> <<>>, aura |-> <<>>] /\ as_styles = <<>>
    /\ as_last = "Hector" /\ as_how = <<>> /\ as_names = DefaultNames

InitSplit ==
    /\ BuildIdle /\ SynthIdle /\ WrapIdle /\ AssignIdle /\ NormIdle /\ AudioIdle /\ WhisperIdle
    /\ sp_pc = "call"
    /\ \/ sp_text \in Texts /\ sp_max \in SegBudgets
       \/ sp_text \in TightTexts /\ sp_max = 3
       \/ sp_text \in LongTexts /\ sp_max = DefaultCfg.max_seg
    /\ \E sp \in Spans : sp_start = sp[1] /\ sp_end = sp[2]
    /\ sp_path = "none"
    /\ sp_parts = <<>>
    /\ sp_out = <<>>

\* lines 134-137: the text is within the budget and passes through
SplitPass ==
    /\ sp_pc = "call"
    /\ Len(Strip(sp_text)) <= sp_max
    /\ sp_out' = split_segment(sp_text, Sec(sp_start), Sec(sp_end), sp_max)
    /\ sp_parts' = <<Strip(sp_text)>>
    /\ sp_path' = "pass"
    /\ sp_pc' = "done"
    /\ UNCHANGED <<sp_text, sp_start, sp_end, sp_max>>
    /\ UNCHANGED <<buildVars, synthVars, wrapVars, assignVars, normVars, audioVars, whisperVars>>

\* lines 139-162: the text is cut and the duration apportioned
SplitCut ==
    /\ sp_pc = "call"
    /\ Len(Strip(sp_text)) > sp_max
    /\ sp_out' = split_segment(sp_text, Sec(sp_start), Sec(sp_end), sp_max)
    /\ sp_parts' = SplitParts(Strip(sp_text), sp_max)
    /\ sp_path' = IF Len(PunctScan(Strip(sp_text), 0, <<>>)) = 1 THEN "fixed" ELSE "punct"
    /\ sp_pc' = "done"
    /\ UNCHANGED <<sp_text, sp_start, sp_end, sp_max>>
    /\ UNCHANGED <<buildVars, synthVars, wrapVars, assignVars, normVars, audioVars, whisperVars>>

NextSplit == SplitPass \/ SplitCut

SpecSplit == InitSplit /\ [][NextSplit]_vars

(***************************************************************************)
(* Claims about split_segment, checked under SpecSplit                     *)
(***************************************************************************)
SpTexts == [i \in 1..Len(sp_out) |-> sp_out[i].text]

\* C3: every sub-caption text returned by split_segment has at most
\* max_chars characters.
C3_CharBudget ==
    sp_pc = "done" => \A i \in 1..Len(sp_out) : Len(sp_out[i].text) <= sp_max

\* C4: when an utterance with end > start is divided into several parts, the
\* first part starts at start, each part starts where the previous one ends,
\* the last part ends at end, and the spans are proper and lie in
\* [start, end), so that their union is exactly [start, end).
C4_SpansReconstruct ==
    (sp_pc = "done" /\ sp_end > sp_start /\ Len(sp_out) > 1) =>
        /\ sp_out[1].st = Sec(sp_start)
        /\ \A i \in 1..(Len(sp_out) - 1) : sp_out[i + 1].st = sp_out[i].en
        /\ sp_out[Len(sp_out)].en = Sec(sp_end)
        /\ \A i \in 1..Len(sp_out) :
              FLe(Sec(sp_start), sp_out[i].st) /\ FLe(sp_out[i].st, sp_out[i].en)
              /\ FLe(sp_out[i].en, Sec(sp_end))

\* C5: the texts of the returned parts, concatenated in order, are the
\* utterance text up to whitespace: the same non-whitespace characters in the
\* same order, on every path of split_segment.
C5_TextPreserved ==
    sp_pc = "done" => NoSpace(Concat(SpTexts)) = NoSpace(sp_text)

\* C5 witness: the punctuation path cut the text in several parts and
\* dropped whitespace at a cut.
C5_Witness ==
    /\ sp_pc = "done" /\ sp_path = "punct" /\ Len(sp_out) >= 2
    /\ Concat(SpTexts) # sp_text

\* C21: every part of an over-budget utterance, the last one too, lasts
\* 0.6 s or more.
C21_PartFloor ==
    (sp_pc = "done" /\ sp_path # "pass") =>
        \A k \in 1..Len(sp_out) :
            FLe(FRatio(6, 10), FSub(sp_out[k].en, sp_out[k].st))

\* C22: every part of an over-budget utterance has 40 characters or more,
\* where the text was cut at marks and where it was cut at a fixed width.
C22_PartMinLength ==
    (sp_pc = "done" /\ sp_path # "pass") =>
        \A k \in 1..Len(sp_out) : Len(sp_out[k].text) >= 40

\* C18: an utterance of 400 characters split with a budget of 160 gives 3
\* parts or more, each of 160 characters at most, whose spans follow one
\* another from the start of the utterance to its end.
C18_LongUtterance ==
    (sp_pc = "done" /\ Len(sp_text) = 400 /\ sp_max = 160) =>
        /\ Len(sp_out) >= 3
        /\ \A k \in 1..Len(sp_out) : Len(sp_out[k].text) <= 160
        /\ sp_out[1].st = Sec(sp_start)
        /\ \A k \in 1..(Len(sp_out) - 1) : sp_out[k + 1].st = sp_out[k].en
        /\ sp_out[Len(sp_out)].en = Sec(sp_end)

(***************************************************************************)
(* SpecSynth: one call of synthesize_times, one loop iteration per step    *)
(***************************************************************************)
\* a letter alone and before a strong mark, a soft mark or a question mark;
\* a question of more than 80 characters; 16 and 300 characters without a
\* mark; no text, and a text that clean_text empties
SynthEnders == {<<>>, <<".">>, <<",", "a">>, <<"?">>}
SynthTexts ==
    {<<"a">> \o e : e \in SynthEnders}
        \cup {Rep("a", BoostLen + 5) \o <<"?">>, Rep("a", 16), Rep("a", 3 * 100),
              <<>>, <<" ", ",", " ">>}

Untimed(text) == [speaker |-> <<>>, text |-> text, start |-> <<>>, end |-> <<>>]

SeqsUpTo(S, n) == UNION {[1..k -> S] : k \in 0..n}

\* the configurations under which the clock comes to lie halfway between
\* two milliseconds, so that round(t, 3) takes start up and end down: at 16
\* characters per second with a minimum of 0.125 s and no soft pause, and
\* at 3000 characters per second with a minimum of 1 ms, of 13 ticks
\* (1.083 ms), of 23 ticks (1.917 ms) and of 2 ms, each with the strong
\* pause that brings the clock there
TieCfgs ==
    {[DefaultCfg EXCEPT !.cps = <<16, 1>>, !.min_dur = 1500, !.pause_soft = 0]}
    \cup {[DefaultCfg EXCEPT !.cps = <<3000, 1>>, !.min_dur = c[1], !.pause_strong = c[2]] :
             c \in {<<TicksPerMs, 14238>>, <<TicksPerMs + 1, 14238>>,
                    <<2 * TicksPerMs - 1, 7>>, <<2 * TicksPerMs, 18>>}}

\* the rates 0, 12 and 3000 with the minimum durations 0, 1.2 s and
\* 1.2003 s; a negative strong pause, a negative boost, a negative soft
\* pause; the rates 0.5 and 12.5; and the configurations of TieCfgs
SynthCfgs ==
    {[DefaultCfg EXCEPT !.cps = <<c, 1>>, !.min_dur = m] :
        c \in {0, 12, 3000}, m \in {0, 14400, 14404}}
    \cup {[DefaultCfg EXCEPT !.pause_strong = -24000],
          [DefaultCfg EXCEPT !.cps = <<3000, 1>>, !.boost = -36000],
          [DefaultCfg EXCEPT !.cps = <<3000, 1>>, !.pause_soft = -24000],
          [DefaultCfg EXCEPT !.cps = <<1, 2>>, !.min_dur = 0],
          [DefaultCfg EXCEPT !.cps = <<25, 2>>, !.min_dur = 0]}
    \cup TieCfgs

InitSynth ==
    /\ BuildIdle /\ SplitIdle /\ WrapIdle /\ AssignIdle /\ NormIdle /\ AudioIdle /\ WhisperIdle
    /\ sy_pc = "loop"
    /\ sy_segs \in SeqsUpTo({Untimed(t) : t \in SynthTexts}, MaxSynthSegs)
    /\ sy_cfg \in SynthCfgs
    /\ sy_i = 1
    /\ sy_t = FZero
    /\ sy_out = <<>>

\* lines 182-184: a segment whose cleaned text is empty is passed over
SynthSkip ==
    /\ sy_pc = "loop" /\ sy_i <= Len(sy_segs)
    /\ clean_text(sy_segs[sy_i].text) = <<>>
    /\ sy_i' = sy_i + 1
    /\ UNCHANGED <<sy_pc, sy_segs, sy_cfg, sy_t, sy_out>>
    /\ UNCHANGED <<buildVars, splitVars, wrapVars, assignVars, normVars, audioVars, whisperVars>>

\* lines 185-202: the segment gets start = t and end = t + dur; t advances
SynthStep ==
    /\ sy_pc = "loop" /\ sy_i <= Len(sy_segs)
    /\ clean_text(sy_segs[sy_i].text) # <<>>
    /\ sy_out' = Append(sy_out, SynthSeg(sy_segs[sy_i], sy_t, sy_cfg))
    /\ sy_t' = FAdd(sy_t, SynthDur(clean_text(sy_segs[sy_i].text), sy_cfg))
    /\ sy_i' = sy_i + 1
    /\ UNCHANGED <<sy_pc, sy_segs, sy_cfg>>
    /\ UNCHANGED <<buildVars, splitVars, wrapVars, assignVars, normVars, audioVars, whisperVars>>

\* line 203
SynthReturn ==
    /\ sy_pc = "loop" /\ sy_i > Len(sy_segs)
    /\ sy_pc' = "done"
    /\ UNCHANGED <<sy_segs, sy_cfg, sy_i, sy_t, sy_out>>
    /\ UNCHANGED <<buildVars, splitVars, wrapVars, assignVars, normVars, audioVars, whisperVars>>

NextSynth == SynthSkip \/ SynthStep \/ SynthReturn

SpecSynth == InitSynth /\ [][NextSynth]_vars

(***************************************************************************)
(* Claims about synthesize_times, checked under SpecSynth                  *)
(***************************************************************************)
Monotonic(out) ==
    \A i \in 1..Len(out) :
        /\ out[i].end[1] > out[i].start[1]
        /\ i < Len(out) => out[i].end[1] <= out[i + 1].start[1]

NonNegIncrements(cfg) ==
    cfg.pause_strong >= 0 /\ cfg.pause_soft >= 0 /\ cfg.boost >= 0

\* C1 as stated: for every configuration, every synthesized utterance has
\* end > start and ends no later than the next one starts.
C1_MonotonicTimeline == Monotonic(sy_out)

\* the minimum duration is 2 ms or more and no pause or boost is negative.
\* round(t, 3) moves start and end by half a millisecond at most, so a
\* duration must exceed 1 ms by more than the rounding error of the clock
\* to keep end after start; 2 ms does while the clock is below 10^12 s, as
\* every clock of the model is
SaneCfg(cfg) == cfg.min_dur >= 2 * TicksPerMs /\ NonNegIncrements(cfg)

\* C1 amended: the same, for every configuration whose minimum duration is
\* at least two milliseconds and whose pause and boost increments are not
\* negative (the timeline being shorter than 10^12 s).
C1_MonotonicTimelineSaneCfg == SaneCfg(sy_cfg) => Monotonic(sy_out)

\* C1 witness: under a minimum of exactly 2 ms two utterances were timed,
\* the second starting where the first ends and lasting one millisecond
\* after the rounding.
C1_Witness ==
    /\ sy_pc = "done" /\ Len(sy_out) = 2
    /\ sy_cfg.min_dur = 2 * TicksPerMs /\ NonNegIncrements(sy_cfg)
    /\ sy_out[2].start[1] = sy_out[1].end[1] /\ sy_out[1].end[1] > 0
    /\ sy_out[2].end[1] - sy_out[2].start[1] = TicksPerMs

Marks(text, marks) == Cardinality({i \in 1..Len(text) : text[i] \in marks})

\* the base duration with the pauses and the boost that the claim adds to it
WithExtras(base, text) ==
    LET paused == FAdd(FAdd(base, FMul(FInt(Marks(text, {".", "!", "?", Ellipsis})),
                                       Sec(sy_cfg.pause_strong))),
                       FMul(FInt(Marks(text, {",", ";", ":"})), Sec(sy_cfg.pause_soft)))
    IN  IF Marks(text, {"?", "!"}) > 0 /\ Len(text) > 80
        THEN FAdd(paused, Sec(sy_cfg.boost)) ELSE paused

\* the duration of the claim, with the rate as configured and with the rate
\* raised to 1 character per second when it is lower
StatedDur(text) ==
    WithExtras(FMax(Sec(sy_cfg.min_dur), FRatio(Len(text) * sy_cfg.cps[2], sy_cfg.cps[1])),
               text)
ClampedDur(text) ==
    WithExtras(FMax(Sec(sy_cfg.min_dur),
                    IF sy_cfg.cps[1] < sy_cfg.cps[2] THEN FInt(Len(text))
                    ELSE FRatio(Len(text) * sy_cfg.cps[2], sy_cfg.cps[1])),
               text)

\* the clock before the first timed utterance and after each of the first k
RECURSIVE Clocks(_)
Clocks(k) ==
    IF k = 0 THEN <<FZero>>
    ELSE LET c == Clocks(k - 1)
         IN  Append(c, FAdd(c[k], ClampedDur(clean_text(sy_out[k].text))))

\* C26 as stated: every timed utterance lasts max(min_duration, len / cps)
\* plus its pauses and boost, and the first one starts at 0.
C26_StatedDuration ==
    /\ Len(sy_out) >= 1 => sy_out[1].start = <<0>>
    /\ \A k \in 1..Len(sy_out) :
          /\ sy_cfg.cps[1] > 0
          /\ Sec(sy_out[k].end[1] - sy_out[k].start[1])
                 = StatedDur(clean_text(sy_out[k].text))

\* C26 as amended: with the duration max(min_duration, len / max(1, cps))
\* plus pauses and boost, a clock starts at 0 and advances by the duration
\* of each timed utterance; the start and the end written for an utterance
\* are the clock before and after it, each rounded to the millisecond.
C26_ClampedRoundedDuration ==
    LET clock == Clocks(Len(sy_out)) IN
    \A k \in 1..Len(sy_out) :
        /\ sy_out[k].start = <<RoundMs(clock[k])>>
        /\ sy_out[k].end = <<RoundMs(clock[k + 1])>>

\* C26 witness: 300 characters without punctuation at 12 characters per
\* second are timed 0.0 to 25.0 s, and an utterance follows
C26_Witness ==
    /\ sy_pc = "done" /\ sy_cfg = DefaultCfg /\ Len(sy_out) = 2
    /\ Len(sy_out[1].text) = 300 /\ Marks(sy_out[1].text, StrongMarks \cup SoftMarks) = 0
    /\ sy_out[1].start = <<0>> /\ sy_out[1].end = <<25 * TicksPerSec>>
    /\ Marks(clean_text(sy_out[2].text), SoftMarks) > 0

(***************************************************************************)
(* SpecWrap: one call of wrap_text_for_srt or of wrap_ass, one attempt     *)
(* (one activation of the recursive function) per step                     *)
(***************************************************************************)
WrapWords == {<<"a">>, <<"b", "b">>, <<"c", "c", "c", "c", "c">>}
WrapTexts ==
    {JoinSpace(ws) : ws \in SeqsUpTo(WrapWords, MaxWords)}
        \cup {<<" ", "a", "\n", Nbsp, "b", "b", "\t", "a", VTab, "a", InfoSep, "a", "\r">>}
WrapWidths == {1, 2, 4, 5, 8, 48}

InitWrap ==
    /\ BuildIdle /\ SplitIdle /\ SynthIdle /\ AssignIdle /\ NormIdle /\ AudioIdle /\ WhisperIdle
    /\ w_pc = "attempt"
    /\ w_fn \in {"srt", "ass"}
    /\ w_in \in WrapTexts
    /\ w_text = w_in
    /\ w_cfg_width \in WrapWidths
    /\ w_width = w_cfg_width
    /\ w_lines = <<>>

SrtLines == GreedySrt(Words(w_text), 1, <<>>, <<>>, w_width)
AssLines == GreedyAss(Words(w_text), 1, <<>>, 0, <<>>, w_width)

\* timeline_to_subs.py lines 125-127: more than 3 lines, wrap again 8 wider
WrapSrtRetry ==
    /\ w_pc = "attempt" /\ w_fn = "srt"
    /\ Len(SrtLines) > MaxLines
    /\ w_text' = JoinSpace(SrtLines)
    /\ w_width' = w_width + WidenSrt
    /\ UNCHANGED <<w_pc, w_fn, w_in, w_cfg_width, w_lines>>
    /\ UNCHANGED <<buildVars, splitVars, synthVars, assignVars, normVars, audioVars, whisperVars>>

\* timeline_to_subs.py line 128
WrapSrtReturn ==
    /\ w_pc = "attempt" /\ w_fn = "srt"
    /\ Len(SrtLines) <= MaxLines
    /\ w_lines' = SrtLines
    /\ w_pc' = "done"
    /\ UNCHANGED <<w_fn, w_in, w_cfg_width, w_text, w_width>>
    /\ UNCHANGED <<buildVars, splitVars, synthVars, assignVars, normVars, audioVars, whisperVars>>

\* srt_to_ass.py lines 198-201: more than 3 lines, wrap again 1.2 times wider
WrapAssRetry ==
    /\ w_pc = "attempt" /\ w_fn = "ass"
    /\ Len(AssLines) > MaxLines
    /\ WidenAss(w_width) # w_width
    /\ w_text' = JoinSpace(AssLines)
    /\ w_width' = WidenAss(w_width)
    /\ UNCHANGED <<w_pc, w_fn, w_in, w_cfg_width, w_lines>>
    /\ UNCHANGED <<buildVars, splitVars, synthVars, assignVars, normVars, audioVars, whisperVars>>

\* srt_to_ass.py lines 198-201 with int(width * 1.2) = width: the call
\* repeats itself with the same arguments until Python raises RecursionError
WrapAssOverflow ==
    /\ w_pc = "attempt" /\ w_fn = "ass"
    /\ Len(AssLines) > MaxLines
    /\ WidenAss(w_width) = w_width
    /\ w_pc' = "RecursionError"
    /\ UNCHANGED <<w_fn, w_in, w_cfg_width, w_text, w_width, w_lines>>
    /\ UNCHANGED <<buildVars, splitVars, synthVars, assignVars, normVars, audioVars, whisperVars>>

\* srt_to_ass.py line 202
WrapAssReturn ==
    /\ w_pc = "attempt" /\ w_fn = "ass"
    /\ Len(AssLines) <= MaxLines
    /\ w_lines' = AssLines
    /\ w_pc' = "done"
    /\ UNCHANGED <<w_fn, w_in, w_cfg_width, w_text, w_width>>
    /\ UNCHANGED <<buildVars, splitVars, synthVars, assignVars, normVars, audioVars, whisperVars>>

NextWrap ==
    WrapSrtRetry \/ WrapSrtReturn \/ WrapAssRetry \/ WrapAssOverflow \/ WrapAssReturn

SpecWrap == InitWrap /\ [][NextWrap]_vars

(***************************************************************************)
(* Claims about the line wrappers, checked under SpecWrap                  *)
(***************************************************************************)
\* C6 as stated: the returned caption has at most 3 lines and no line
\* longer than the configured width.
C6_LineBudget ==
    w_pc = "done" =>
        /\ Len(w_lines) <= MaxLines
        /\ \A i \in 1..Len(w_lines) : Len(w_lines[i]) <= w_cfg_width

\* C6 amended: the returned caption has at most 3 lines, and a line that
\* holds more than one word is no longer than the width of the last attempt
\* (the configured width, widened once per retry).
C6_LineBudgetWidened ==
    w_pc = "done" =>
        /\ Len(w_lines) <= MaxLines
        /\ w_width >= w_cfg_width
        /\ \A i \in 1..Len(w_lines) :
              Len(Words(w_lines[i])) > 1 => Len(w_lines[i]) <= w_width

\* C6 witness: a caption was returned after a retry, with a line of several
\* words that is longer than the configured width.
C6_Witness ==
    /\ w_pc = "done" /\ w_width > w_cfg_width
    /\ \E i \in 1..Len(w_lines) :
          Len(Words(w_lines[i])) > 1 /\ Len(w_lines[i]) > w_cfg_width

\* the words of a caption read line by line
RECURSIVE WordsOfLines(_)
WordsOfLines(lines) ==
    IF lines = <<>> THEN <<>> ELSE Words(Head(lines)) \o WordsOfLines(Tail(lines))

\* C27: the words of the returned caption, read line by line, are the words
\* of the text that was passed in, in the same order, none dropped, split or
\* duplicated, also when the text was wrapped again at a larger width.
C27_WordsKept ==
    w_pc = "done" => WordsOfLines(w_lines) = Words(w_in)

\* C27 witness: a caption of several lines was returned after a retry, no
\* line of it empty, and it holds the five words of the input
C27_Witness ==
    /\ w_pc = "done" /\ w_width > w_cfg_width
    /\ Len(Words(w_in)) = MaxWords /\ Len(w_lines) > 1
    /\ \A i \in 1..Len(w_lines) : Words(w_lines[i]) # <<>>
    /\ WordsOfLines(w_lines) = Words(w_in)

\* C28: no call of a wrapper ends in unbounded recursion.
C28_RetryTerminates ==
    w_pc # "RecursionError"

(***************************************************************************)
(* SpecAssign: one call of assign_speakers_to_srt, one caption per step    *)
(***************************************************************************)
TranscriptLines ==
    {<<DefaultNames.hector, <<"a", "b", " ", "c", "d">>>>,
     <<DefaultNames.aura, <<"c", "d", " ", "e", "f">>>>,
     <<DefaultNames.aura, <<"a", "b">>>>,
     <<<<"N", "a", "r", "r", "a", "d", "o", "r">>, <<"z", "z">>>>}

\* a caption: its start in centiseconds (it["start"], "h:mm:ss.cs") and text
Captions ==
    {[start |-> 0, text |-> <<"a", "b">>],
     [start |-> 600, text |-> <<"a", "b">>],
     [start |-> 600, text |-> <<"c", Fire, Sun, "d">>],
     [start |-> 600, text |-> <<"z", " ", " ", "z">>],
     [start |-> 600, text |-> DefaultNames.aura \o <<" ", "a", "b">>]}

\* the scenario of two captions: a transcript of a HOST line and a GUEST
\* line, the captions 2 and 4 seconds long, shifted by off centiseconds
InvertedQuestion == "<inverted-question>"
InvertedExclamation == "<inverted-exclamation>"
HostLine ==
    <<InvertedQuestion, "Q", "u", EAcuteLower, " ", "e", "s", " ", "l", "a", " ",
      "g", "r", "a", "v", "e", "d", "a", "d", "?">>
GuestLine ==
    <<"E", "s", " ", "u", "n", "a", " ", "f", "u", "e", "r", "z", "a", " ",
      "f", "u", "n", "d", "a", "m", "e", "n", "t", "a", "l", ".", ".", ".">>
HostGuestNames == [hector |-> <<"H", "O", "S", "T">>, aura |-> <<"G", "U", "E", "S", "T">>]
ScenarioTranscript == <<<<HostGuestNames.hector, HostLine>>, <<HostGuestNames.aura, GuestLine>>>>
ScenarioCaptions(off) ==
    <<[start |-> off, text |-> HostLine], [start |-> off + 200, text |-> GuestLine]>>
ScenarioOffsets == {0, 300, 500, 1000}

AssignRuns ==
    {[items |-> it, transcript |-> tr, names |-> DefaultNames] :
        it \in SeqsUpTo(Captions, MaxCaptions),
        tr \in SeqsUpTo(TranscriptLines, MaxTranscript)}
    \cup
    {[items |-> ScenarioCaptions(off), transcript |-> ScenarioTranscript, names |-> nm] :
        off \in ScenarioOffsets, nm \in {DefaultNames, HostGuestNames}}

InitAssign ==
    /\ BuildIdle /\ SplitIdle /\ SynthIdle /\ WrapIdle /\ NormIdle /\ AudioIdle /\ WhisperIdle
    /\ as_pc = "loop"
    /\ \E run \in AssignRuns :
          /\ as_items = run.items
          /\ as_transcript = run.transcript
          /\ as_names = run.names
    /\ as_buffers = build_speaker_buffers(as_transcript)
    /\ as_k = 1
    /\ as_styles = <<>>
    /\ as_how = <<>>
    /\ as_last = "Hector"

AsCaption == as_items[as_k]
AsClean == strip_meta(AsCaption.text)

\* mutant of AssignNarrator: the caption is passed over without a style
AssignNarrator_NoStyle ==
    /\ as_pc = "loop" /\ as_k <= Len(as_items)
    /\ AsCaption.start < NarratorUntilCs
    /\ as_k' = as_k + 1
    /\ UNCHANGED <<as_pc, as_items, as_transcript, as_buffers, as_last, as_names,
                   as_styles, as_how>>
    /\ UNCHANGED <<buildVars, splitVars, synthVars, wrapVars, normVars, audioVars, whisperVars>>

\* lines 152-155: a caption that starts in the first 5 seconds
AssignNarrator ==
    /\ as_pc = "loop" /\ as_k <= Len(as_items)
    /\ AsCaption.start < NarratorUntilCs
    /\ as_styles' = Append(as_styles, "Base")
    /\ as_how' = Append(as_how, "narrator")
    /\ as_k' = as_k + 1
    /\ UNCHANGED <<as_pc, as_items, as_transcript, as_buffers, as_last, as_names>>
    /\ UNCHANGED <<buildVars, splitVars, synthVars, wrapVars, normVars, audioVars, whisperVars>>

\* lines 157-162, 175-176: the text names one speaker and not the other
AssignByName ==
    /\ as_pc = "loop" /\ as_k <= Len(as_items)
    /\ AsCaption.start >= NarratorUntilCs
    /\ NameShortcut(AsClean) # ""
    /\ as_styles' = Append(as_styles, NameShortcut(AsClean))
    /\ as_how' = Append(as_how, "name")
    /\ as_last' = NameShortcut(AsClean)
    /\ as_k' = as_k + 1
    /\ UNCHANGED <<as_pc, as_items, as_transcript, as_buffers, as_names>>
    /\ UNCHANGED <<buildVars, splitVars, synthVars, wrapVars, normVars, audioVars, whisperVars>>

\* lines 163-176: the best buffer decides and is consumed
AssignByMatch ==
    /\ as_pc = "loop" /\ as_k <= Len(as_items)
    /\ AsCaption.start >= NarratorUntilCs
    /\ NameShortcut(AsClean) = ""
    /\ LET r == MatchOutcome(AsClean, as_buffers, as_last) IN
          /\ as_styles' = Append(as_styles, r.sty)
          /\ as_how' = Append(as_how, r.how)
          /\ as_last' = r.sty
          /\ as_buffers' = r.buffers
    /\ as_k' = as_k + 1
    /\ UNCHANGED <<as_pc, as_items, as_transcript, as_names>>
    /\ UNCHANGED <<buildVars, splitVars, synthVars, wrapVars, normVars, audioVars, whisperVars>>

\* line 177
AssignReturn ==
    /\ as_pc = "loop" /\ as_k > Len(as_items)
    /\ as_pc' = "done"
    /\ UNCHANGED <<as_items, as_transcript, as_k, as_buffers, as_styles, as_last, as_how,
                   as_names>>
    /\ UNCHANGED <<buildVars, splitVars, synthVars, wrapVars, normVars, audioVars, whisperVars>>

NextAssign == AssignNarrator \/ AssignByName \/ AssignByMatch \/ AssignReturn

SpecAssign == InitAssign /\ [][NextAssign]_vars

(***************************************************************************)
(* Claims about the attribution, checked under SpecAssign                  *)
(***************************************************************************)
\* C7: in every step of a run of assign_speakers_to_srt each speaker's
\* buffer after the caption is a suffix of that buffer before the caption,
\* so that consumed text never comes back.
C7_BuffersOnlyShrink ==
    [][/\ IsSuffix(as_buffers'.hector, as_buffers.hector)
       /\ IsSuffix(as_buffers'.aura, as_buffers.aura)]_vars

\* C7 witness: two captions were matched to the same speaker by its buffer,
\* which each of them cut, and text of that buffer is left.
C7_Witness ==
    /\ as_pc = "done"
    /\ \E i, j \in 1..Len(as_styles) :
          /\ i < j /\ as_how[i] = "match" /\ as_how[j] = "match"
          /\ as_styles[i] = "Aura" /\ as_styles[j] = "Aura"
    /\ as_buffers.aura # <<>>
    /\ Len(as_buffers.aura) + 4 <= Len(build_speaker_buffers(as_transcript).aura)

\* C23: a step on a caption that starts before 5 seconds gives it the style
\* Base and leaves the buffers and the last assigned speaker as they were,
\* whatever the text, the buffers and the last speaker are.
C23_NarratorWindow ==
    [][(as_pc = "loop" /\ as_k <= Len(as_items) /\ as_items[as_k].start < 5 * 100) =>
          /\ as_styles' = Append(as_styles, "Base")
          /\ as_buffers' = as_buffers
          /\ as_last' = as_last]_vars

\* C23 witness: a caption in the window whose text a buffer holds, after a
\* caption outside the window, got the style Base and the buffer is whole
C23_Witness ==
    /\ as_pc = "done" /\ Len(as_items) >= 2
    /\ \E k \in 2..Len(as_items) :
          /\ as_items[k].start < 5 * 100 /\ as_styles[k] = "Base"
          /\ as_items[k - 1].start >= 5 * 100
          /\ Contains(Lower(as_buffers.hector), Lower(strip_meta(as_items[k].text)))

\* the text of caption k as the function reads it: tags and emoji removed,
\* in lower case
LowText(k) == Lower(strip_meta(as_items[k].text))
Names(k, name) == Contains(LowText(k), Lower(name))

\* C24: a caption outside the window whose text names one speaker and not
\* the other gets that speaker's style.
C24_NameShortcut ==
    \A k \in 1..Len(as_styles) :
        as_items[k].start >= 5 * 100 =>
            /\ (Names(k, as_names.hector) /\ ~Names(k, as_names.aura)) => as_styles[k] = "Hector"
            /\ (Names(k, as_names.aura) /\ ~Names(k, as_names.hector)) => as_styles[k] = "Aura"

\* C24 witness: the first caption names Aura and got her style, while the
\* buffers, which the step left as they were, score best for Hector
C24_Witness ==
    /\ as_k = 2 /\ as_items[1].start >= 5 * 100
    /\ Names(1, as_names.aura) /\ as_styles = <<"Aura">>
    /\ as_buffers.hector # <<>>
    /\ best_speaker_for_caption(strip_meta(as_items[1].text), as_buffers) = as_names.hector

\* C25: while the captions are read, the styles are one for each caption
\* read so far, each of Base, Hector and Aura; a caption of the window has
\* Base at its place; the list returned has the length of the caption list.
C25_OneStylePerCaption ==
    as_pc \in {"loop", "done"} =>
        /\ Len(as_styles) = as_k - 1
        /\ as_k <= Len(as_items) + 1
        /\ \A k \in 1..Len(as_styles) :
              /\ as_styles[k] \in {"Base", "Hector", "Aura"}
              /\ as_styles[k] = "Base" <=> as_items[k].start < 5 * 100
        /\ as_pc = "done" => Len(as_styles) = Len(as_items)

\* C25 witness: three captions, one of the window between two others, and
\* an empty transcript
C25_Witness ==
    /\ as_pc = "done" /\ Len(as_items) = 3 /\ as_transcript = <<>>
    /\ as_styles[2] = "Base" /\ as_styles[1] # "Base" /\ as_styles[3] # "Base"

IsScenario(off) == as_items = ScenarioCaptions(off) /\ as_transcript = ScenarioTranscript

\* C17 as stated: in the scenario, with the captions at 0.0 and 2.0 s, the
\* first caption gets the host's style and the second the guest's.
C17_HostThenGuest ==
    (as_pc = "done" /\ IsScenario(0)) => as_styles = <<"Hector", "Aura">>

\* C17 as amended: in the scenario, with HOST and GUEST as the two names, a
\* caption that starts in the first 5 seconds gets the style Base, as both
\* do at 0.0 and 2.0 s; a caption that starts later gets the host's style
\* when it is the first and the guest's when it is the second.
C17_NarratorWindowFirst ==
    \A off \in ScenarioOffsets :
        (as_pc = "done" /\ IsScenario(off) /\ as_names = HostGuestNames) =>
            as_styles = [k \in 1..2 |->
                            IF as_items[k].start < 5 * 100 THEN "Base"
                            ELSE IF k = 1 THEN "Hector" ELSE "Aura"]

C17_Witness ==
    /\ as_pc = "done" /\ IsScenario(0) /\ as_names = HostGuestNames
    /\ as_styles = <<"Base", "Base">>

\* the style of the caption styled last before caption k, the narrator's
\* captions aside, which is last_style when caption k is reached
PrevStyle(k) ==
    LET J == {j \in 1..(k - 1) : as_how[j] # "narrator"} IN
    IF J = {} THEN "Hector" ELSE as_styles[CHOOSE j \in J : \A i \in J : i <= j]

\* C19: when both buffers are empty, a caption that the narrator window
\* and the name shortcut leave aside gets the speaker other than the one
\* assigned before it.
C19_AlternatesWithoutMatch ==
    build_speaker_buffers(as_transcript) = [hector |-> <<>>, aura |-> <<>>] =>
        \A k \in 1..Len(as_styles) :
            as_how[k] \notin {"narrator", "name"} =>
                as_styles[k] = (IF PrevStyle(k) = "Hector" THEN "Aura" ELSE "Hector")

(***************************************************************************)
(* Spec: one run of build_from_timeline                                    *)
(***************************************************************************)
LongText ==
    JoinSpace([i \in 1..4 |-> Rep("a", 9)]) \o <<".", " ">> \o Rep("b", 5)
        \o <<" ">> \o Rep("b", 4)

ShortText == <<"*", "*", "h", "o", "*", "*", "\n", Nbsp, InfoSep, "l", "a", ",">>

PipeTexts ==
    {<<>>,
     <<" ", ",", " ">>,
     ShortText,
     <<"o", "k", " ", Emoji, Sun, Fire, Clef>>,
     LongText}

\* the labels of the segments that name a speaker
PipeSpeakers ==
    {<<"a", "u", "r", "a", ":">>,
     <<"H", EAcuteLower, "c", "t", "o", "r">>,
     <<"B", "o", "b">>}

JMissing == [kind |-> "missing", v |-> 0]
JNumber(t) == [kind |-> "number", v |-> t]
JBool(b) == [kind |-> "bool", v |-> IF b THEN 1 ELSE 0]
JString == [kind |-> "string", v |-> 0]

NoTimes == <<JMissing, JMissing>>
WithTimes == <<JNumber(24000), JNumber(60000)>>

\* <<start, end>> as JSON values: missing; 1.0 to 1.5 s; 2.0 to 5.0 s; 3.0
\* to 3.0 s; false to true; a string to a number
PipeTimings ==
    {NoTimes, <<JNumber(12000), JNumber(18000)>>, WithTimes,
     <<JNumber(36000), JNumber(36000)>>}
BoolTimes == <<JBool(FALSE), JBool(TRUE)>>
StringTimes == <<JString, JNumber(24000)>>

\* without a speaker the short and the long text with every timing and the
\* other texts untimed and timed; the short text timed with each speaker, and
\* timed by booleans and by a string without one; the long text untimed with
\* a speaker; and an element that is not an object
ElemChoices ==
    {<<"record", <<>>, t, tm>> : t \in {ShortText, LongText}, tm \in PipeTimings}
        \cup {<<"record", <<>>, t, tm>> :
                t \in PipeTexts \ {ShortText, LongText}, tm \in {NoTimes, WithTimes}}
        \cup {<<"record", sp, ShortText, WithTimes>> : sp \in PipeSpeakers}
        \cup {<<"record", <<>>, ShortText, tm>> : tm \in {BoolTimes, StringTimes}}
        \cup {<<"record", <<"a", "u", "r", "a", ":">>, LongText, NoTimes>>}
        \cup {<<"number", <<>>, <<>>, NoTimes>>}

MkElem(c, i) ==
    [kind |-> c[1], id |-> i, speaker |-> c[2], text |-> c[3],
     start |-> NumberOf(c[4][1]), end |-> NumberOf(c[4][2])]

ListsOf(choices, n) ==
    {Node("list", [i \in DOMAIN c |-> MkElem(c[i], i)], <<>>) :
        c \in UNION {[1..k -> choices] : k \in 0..n}}

ListsUpTo(n) == ListsOf(ElemChoices, n)

OneKey == <<NonRecord("string", 1)>>
TwoChars == <<NonRecord("string", 1), NonRecord("string", 2)>>

OddValues ==
    {Node("null", <<>>, <<>>), Node("number", <<>>, <<>>), Node("bool", <<>>, <<>>),
     Node("string", <<>>, <<>>), Node("string", TwoChars, <<>>),
     Node("object", <<>>, <<>>), Node("object", OneKey, <<>>)}

RawInputs ==
    ListsUpTo(MaxSegs)
        \cup {Node("object", OneKey, <<l>>) : l \in ListsUpTo(1)}
        \cup {Node("object", OneKey, <<v>>) : v \in OddValues}
        \cup OddValues
        \cup {Node("malformed", <<>>, <<>>)}

\* the default configuration and one with a small budget and a small width
LayoutCfgs == {DefaultCfg, [DefaultCfg EXCEPT !.max_seg = 50, !.max_line = 16]}

\* the configurations that decide the synthetic times at 3000 characters
\* per second: no minimum duration, and the minimum durations of 1 ms,
\* 13 ticks, 23 ticks and 2 ms with the pause that brings the clock halfway
\* between two milliseconds
TimingCfgs ==
    {[DefaultCfg EXCEPT !.cps = <<3000, 1>>, !.min_dur = 0]}
        \cup {c \in TieCfgs : c.cps = <<3000, 1>>}

\* untimed segments whose synthetic times depend on the minimum duration:
\* a letter before a strong mark, a letter alone, and no text
TimingChoices ==
    {<<"record", <<>>, t, NoTimes>> : t \in {<<"a", ".">>, <<"a">>, <<>>}}

PipeCfgs == LayoutCfgs \cup TimingCfgs

Init ==
    /\ SplitIdle /\ SynthIdle /\ WrapIdle /\ AssignIdle /\ NormIdle /\ AudioIdle /\ WhisperIdle
    /\ pc = "load"
    /\ \/ raw \in RawInputs /\ b_cfg \in LayoutCfgs
       \/ raw \in ListsOf(TimingChoices, MaxSegs) /\ b_cfg \in PipeCfgs
    /\ b_segs = EmptyList
    /\ ck_i = 1 /\ needs_synth = FALSE
    /\ em_i = 1 /\ idx = 1
    /\ subs = <<>> /\ srt_blocks = <<>> /\ ass_events = <<>>
    /\ exc = "none" /\ warned = FALSE
    /\ srt_file = <<>> /\ ass_file = <<>>

Raise(e) ==
    /\ pc' = "raised" /\ exc' = e

\* line 209 (and 19): json.loads fails on a text that is not JSON
LoadMalformed ==
    /\ pc = "load" /\ raw.kind = "malformed"
    /\ Raise("JSONDecodeError")
    /\ UNCHANGED <<raw, b_cfg, b_segs, ck_i, needs_synth, em_i, idx, subs, srt_blocks,
                   ass_events, warned, srt_file, ass_file>>
    /\ UNCHANGED <<splitVars, synthVars, wrapVars, assignVars, normVars, audioVars, whisperVars>>

\* lines 209-221
Load ==
    /\ pc = "load" /\ raw.kind # "malformed"
    /\ b_segs' = SegsNode(raw)
    /\ pc' = "check"
    /\ UNCHANGED <<raw, b_cfg, ck_i, needs_synth, em_i, idx, subs, srt_blocks,
                   ass_events, exc, warned, srt_file, ass_file>>
    /\ UNCHANGED <<splitVars, synthVars, wrapVars, assignVars, normVars, audioVars, whisperVars>>

\* line 222: segs cannot be iterated
CheckNotIterable ==
    /\ pc = "check" /\ ~Iterable(b_segs)
    /\ Raise("TypeError")
    /\ UNCHANGED <<raw, b_cfg, b_segs, ck_i, needs_synth, em_i, idx, subs, srt_blocks,
                   ass_events, warned, srt_file, ass_file>>
    /\ UNCHANGED <<splitVars, synthVars, wrapVars, assignVars, normVars, audioVars, whisperVars>>

\* line 223: s.get on an element that is not an object
CheckNotRecord ==
    /\ pc = "check" /\ Iterable(b_segs) /\ ck_i <= Len(b_segs.items)
    /\ b_segs.items[ck_i].kind # "record"
    /\ Raise("AttributeError")
    /\ UNCHANGED <<raw, b_cfg, b_segs, ck_i, needs_synth, em_i, idx, subs, srt_blocks,
                   ass_events, warned, srt_file, ass_file>>
    /\ UNCHANGED <<splitVars, synthVars, wrapVars, assignVars, normVars, audioVars, whisperVars>>

\* lines 222-226: one element of the first loop
CheckStep ==
    /\ pc = "check" /\ Iterable(b_segs) /\ ck_i <= Len(b_segs.items)
    /\ b_segs.items[ck_i].kind = "record"
    /\ needs_synth' = (needs_synth \/ ~ValidTiming(b_segs.items[ck_i]))
    /\ ck_i' = ck_i + 1
    /\ UNCHANGED <<pc, raw, b_cfg, b_segs, em_i, idx, subs, srt_blocks, ass_events, exc,
                   warned, srt_file, ass_file>>
    /\ UNCHANGED <<splitVars, synthVars, wrapVars, assignVars, normVars, audioVars, whisperVars>>

\* lines 227-228: some element had no valid times
Synthesize ==
    /\ pc = "check" /\ Iterable(b_segs) /\ ck_i > Len(b_segs.items)
    /\ needs_synth
    /\ b_segs' = Node("list", synthesize_times(b_segs.items, b_cfg), <<>>)
    /\ pc' = "emit"
    /\ UNCHANGED <<raw, b_cfg, ck_i, needs_synth, em_i, idx, subs, srt_blocks,
                   ass_events, exc, warned, srt_file, ass_file>>
    /\ UNCHANGED <<splitVars, synthVars, wrapVars, assignVars, normVars, audioVars, whisperVars>>

\* line 227: every element had valid times
KeepTimes ==
    /\ pc = "check" /\ Iterable(b_segs) /\ ck_i > Len(b_segs.items)
    /\ ~needs_synth
    /\ pc' = "emit"
    /\ UNCHANGED <<raw, b_cfg, b_segs, ck_i, needs_synth, em_i, idx, subs, srt_blocks,
                   ass_events, exc, warned, srt_file, ass_file>>
    /\ UNCHANGED <<splitVars, synthVars, wrapVars, assignVars, normVars, audioVars, whisperVars>>

\* mutant of EmitSkip: the loop is left instead of continued
EmitSkip_Break ==
    /\ pc = "emit" /\ em_i <= Len(b_segs.items)
    /\ LET s == b_segs.items[em_i] IN clean_text(s.text) = <<>> \/ ~ValidTiming(s)
    /\ em_i' = Len(b_segs.items) + 1
    /\ UNCHANGED <<pc, raw, b_cfg, b_segs, ck_i, needs_synth, idx, subs, srt_blocks,
                   ass_events, exc, warned, srt_file, ass_file>>
    /\ UNCHANGED <<splitVars, synthVars, wrapVars, assignVars, normVars, audioVars, whisperVars>>

\* lines 271-280: a segment without text or without valid times is passed over
EmitSkip ==
    /\ pc = "emit" /\ em_i <= Len(b_segs.items)
    /\ LET s == b_segs.items[em_i] IN clean_text(s.text) = <<>> \/ ~ValidTiming(s)
    /\ em_i' = em_i + 1
    /\ UNCHANGED <<pc, raw, b_cfg, b_segs, ck_i, needs_synth, idx, subs, srt_blocks,
                   ass_events, exc, warned, srt_file, ass_file>>
    /\ UNCHANGED <<splitVars, synthVars, wrapVars, assignVars, normVars, audioVars, whisperVars>>

\* lines 271-300: a segment is split and each part is appended to both lists
EmitStep ==
    /\ pc = "emit" /\ em_i <= Len(b_segs.items)
    /\ LET s == b_segs.items[em_i]
           speaker == norm_speaker(s.speaker)
           text == clean_text(s.text)
       IN  /\ text # <<>> /\ ValidTiming(s)
           /\ LET subparts == split_segment(text, Sec(s.start[1]), Sec(s.end[1]), b_cfg.max_seg)
                  n == Len(subparts)
              IN  /\ srt_blocks' = srt_blocks \o
                        [k \in 1..n |-> SrtBlock(idx + k - 1, subparts[k], b_cfg.max_line)]
                  /\ ass_events' = ass_events \o
                        [k \in 1..n |-> AssEvent(subparts[k], speaker, b_cfg.max_line)]
                  /\ subs' = subs \o
                        [k \in 1..n |-> [src |-> s.id, text |-> subparts[k].text,
                                         st |-> subparts[k].st, en |-> subparts[k].en]]
                  /\ idx' = NextIdx(idx, n)
    /\ em_i' = em_i + 1
    /\ UNCHANGED <<pc, raw, b_cfg, b_segs, ck_i, needs_synth, exc, warned, srt_file, ass_file>>
    /\ UNCHANGED <<splitVars, synthVars, wrapVars, assignVars, normVars, audioVars, whisperVars>>

\* lines 302-307: the warning when nothing was emitted, then both files
Finish ==
    /\ pc = "emit" /\ em_i > Len(b_segs.items)
    /\ warned' = WarnsEmpty(srt_blocks)
    /\ srt_file' = <<srt_blocks>>
    /\ ass_file' = <<ass_events>>
    /\ pc' = "done"
    /\ UNCHANGED <<raw, b_cfg, b_segs, ck_i, needs_synth, em_i, idx, subs, srt_blocks,
                   ass_events, exc>>
    /\ UNCHANGED <<splitVars, synthVars, wrapVars, assignVars, normVars, audioVars, whisperVars>>

Next ==
    \/ LoadMalformed \/ Load \/ CheckNotIterable \/ CheckNotRecord \/ CheckStep
    \/ Synthesize \/ KeepTimes \/ EmitSkip \/ EmitStep \/ Finish

Spec == Init /\ [][Next]_vars

(***************************************************************************)
(* Claims about build_from_timeline                                        *)
(***************************************************************************)
Terminal == pc \in {"done", "raised"}

\* the run ended with exception e and wrote nothing
Failed(e) == pc = "raised" /\ exc = e /\ srt_file = <<>> /\ ass_file = <<>>

\* the run completed, printed the warning and wrote two documents without
\* any block or event
CompletedEmpty ==
    /\ pc = "done" /\ exc = "none" /\ warned
    /\ srt_file = <<<<>>>> /\ ass_file = <<<<>>>>

\* the value the recognized shapes are about: the input itself, or the value
\* of "segments" when the input is an object (<<>> when it has no such key)
ShapeValue(r) == IF r.kind = "object" THEN r.seg ELSE <<r>>

AllRecords(items) == \A i \in 1..Len(items) : items[i].kind = "record"

\* an object with a segments list of records, or a list of records
Recognized(r) ==
    /\ ShapeValue(r) # <<>>
    /\ ShapeValue(r)[1].kind = "list"
    /\ AllRecords(ShapeValue(r)[1].items)

NoUsableText(r) ==
    \A i \in 1..Len(ShapeValue(r)[1].items) :
        clean_text(ShapeValue(r)[1].items[i].text) = <<>>

SubsOf(id) == SelectSeq(subs, LAMBDA u : u.src = id)

ExpectedSubs(r) ==
    LET parts == split_segment(clean_text(r.text), Sec(r.start[1]), Sec(r.end[1]), b_cfg.max_seg)
    IN  [k \in 1..Len(parts) |->
            [src |-> r.id, text |-> parts[k].text, st |-> parts[k].st, en |-> parts[k].en]]

\* C2: when the run is done, every input segment with valid real timing
\* (numeric start and end, end > start) and a text has exactly the
\* sub-captions that splitting its text over its own start..end gives, also
\* when another segment of the input lacks valid timing.
C2_RealTimingKept ==
    pc = "done" =>
        \A i \in 1..Len(SegsNode(raw).items) :
            LET r == SegsNode(raw).items[i] IN
            (ValidTiming(r) /\ clean_text(r.text) # <<>>) => SubsOf(r.id) = ExpectedSubs(r)

\* C9 as stated: an input of a recognized shape without any usable utterance
\* ends the run with an EmptyInputError and nothing written.
C9_EmptyInputIsFatal ==
    (Terminal /\ Recognized(raw) /\ NoUsableText(raw)) => Failed("EmptyInputError")

\* C9 as amended: an input of a recognized shape without any usable utterance
\* (no segment, or every text empty after cleaning) makes the run complete
\* normally: it prints the warning and writes both documents, without any
\* block or event.
C9_EmptyInputWarns ==
    (Terminal /\ Recognized(raw) /\ NoUsableText(raw)) => CompletedEmpty

C9_Witness ==
    /\ pc = "done" /\ Recognized(raw) /\ NoUsableText(raw)
    /\ ShapeValue(raw)[1].items # <<>>
    /\ warned /\ srt_file = <<<<>>>>

\* C10 as stated: an input that is not of a recognized shape ends the run
\* with an InputFormatError and nothing written.
C10_UnrecognizedIsFormatError ==
    (Terminal /\ ~Recognized(raw)) => Failed("InputFormatError")

\* C10 as amended: an input that is not of a recognized shape ends the run
\* with JSONDecodeError when it is not JSON, with TypeError when the value to
\* iterate is null, a number or a boolean, with AttributeError when the value
\* iterates to something that is not a record, each with nothing written;
\* an object without "segments" and a value that iterates to nothing are
\* taken as an empty segment list: the run completes, warns and writes both
\* documents without any block or event.
C10_UnrecognizedOutcome ==
    (Terminal /\ ~Recognized(raw)) =>
        LET v == ShapeValue(raw) IN
        IF raw.kind = "malformed" THEN Failed("JSONDecodeError")
        ELSE IF v # <<>> /\ v[1].kind \in {"null", "number", "bool"}
        THEN Failed("TypeError")
        ELSE IF v # <<>> /\ ~AllRecords(v[1].items) THEN Failed("AttributeError")
        ELSE CompletedEmpty

C10_Witness ==
    /\ pc = "done" /\ raw.kind = "object" /\ raw.seg = <<>> /\ raw.items # <<>>
    /\ warned /\ srt_file = <<<<>>>> /\ ass_file = <<<<>>>>

InputItems == ShapeValue(raw)[1].items

HasText(r) == clean_text(r.text) # <<>>

\* start and end are numbers, and end is not after start
UnusableTiming(r) == r.start # <<>> /\ r.end # <<>> /\ r.end[1] <= r.start[1]

InOrder == \A k \in 1..(Len(subs) - 1) : subs[k].src <= subs[k + 1].src

\* C11 as stated: on a list of records the run is not aborted, a segment
\* without text or with unusable timing has no event, and every other
\* segment has its events, in the order of the input.
C11_UnusableDropped ==
    Recognized(raw) =>
        /\ pc # "raised"
        /\ pc = "done" =>
              /\ \A i \in 1..Len(InputItems) :
                    SubsOf(i) = <<>> <=>
                        (~HasText(InputItems[i]) \/ UnusableTiming(InputItems[i]))
              /\ InOrder

\* C11 as amended: on a list of records the run is not aborted, no segment
\* without text has an event, and the events are in the order of the input;
\* every segment with text, whatever its timing, has its events when the
\* configuration has a minimum duration of 2 ms or more and no negative
\* pause or boost.
C11_EmptyDroppedOthersKept ==
    Recognized(raw) =>
        /\ pc # "raised"
        /\ pc = "done" =>
              /\ \A i \in 1..Len(InputItems) :
                    ~HasText(InputItems[i]) => SubsOf(i) = <<>>
              /\ SaneCfg(b_cfg) =>
                    \A i \in 1..Len(InputItems) :
                        HasText(InputItems[i]) => SubsOf(i) # <<>>
              /\ InOrder

\* C11 witness: under such a configuration the segment without text has
\* no event and the segment with text and unusable timing has its events.
C11_Witness ==
    /\ pc = "done" /\ Recognized(raw) /\ Len(InputItems) = 2
    /\ SaneCfg(b_cfg)
    /\ ~HasText(InputItems[1])
    /\ HasText(InputItems[2]) /\ UnusableTiming(InputItems[2])
    /\ SubsOf(1) = <<>> /\ SubsOf(2) # <<>>

\* the configuration sets a minimum duration of 1 ms and a segment with
\* text was timed with end = start and has no event
C11_DroppedWithText ==
    /\ pc = "done" /\ Recognized(raw) /\ b_cfg.min_dur = TicksPerMs
    /\ \E i \in 1..Len(InputItems) : HasText(InputItems[i]) /\ SubsOf(i) = <<>>

\* C13: the plain blocks, while they are collected and in the file written,
\* are numbered 1, 2, ..., n in their order.
C13_BlocksNumbered ==
    /\ \A k \in 1..Len(srt_blocks) : srt_blocks[k].idx = k
    /\ pc = "done" => srt_file = <<srt_blocks>>

\* C13 witness: a file of three blocks or more from an input with a segment
\* that was passed over and a segment that was split
C13_Witness ==
    /\ pc = "done" /\ Recognized(raw) /\ Len(srt_file[1]) >= 2
    /\ \E i \in 1..Len(InputItems) : SubsOf(i) = <<>>
    /\ \E i \in 1..Len(InputItems) : Len(SubsOf(i)) >= 2

SrtMs(ts) == ((ts[1] * 60 + ts[2]) * 60 + ts[3]) * 1000 + ts[4]
AssCs(ts) == ((ts[1] * 60 + ts[2]) * 60 + ts[3]) * 100 + ts[4]
SameInstant(srt_ts, ass_ts) ==
    /\ 10 * AssCs(ass_ts) - SrtMs(srt_ts) <= 5
    /\ SrtMs(srt_ts) - 10 * AssCs(ass_ts) <= 5

\* C14: the plain blocks and the styled events are as many, and the k-th
\* block and the k-th event have the same start and end (to the hundredth
\* of a second the styled stamp keeps) and the same lines of text, the
\* glyphs above U+FFFF removed from the styled one; both files are these.
C14_SameSubCaptions ==
    /\ Len(srt_blocks) = Len(ass_events)
    /\ \A k \in 1..Len(srt_blocks) :
          /\ k <= Len(ass_events)
          /\ SameInstant(srt_blocks[k].start, ass_events[k].start)
          /\ SameInstant(srt_blocks[k].end, ass_events[k].end)
          /\ ass_events[k].text =
                [i \in 1..Len(srt_blocks[k].text) |->
                    SelectSeq(srt_blocks[k].text[i], LAMBDA c : c \notin AstralChars)]
    /\ pc = "done" => srt_file = <<srt_blocks>> /\ ass_file = <<ass_events>>

\* C14 witness: two events or more, one of them with a glyph removed
C14_Witness ==
    /\ pc = "done" /\ Len(ass_file[1]) >= 2
    /\ \E k \in 1..Len(ass_file[1]) : ass_file[1][k].text # srt_file[1][k].text

\* C15: every styled event has a style that the header declares: Hector
\* for a segment whose speaker normalizes to HECTOR, Aura for AURA, and
\* Base for every other speaker.
C15_StyleDeclared ==
    \A k \in 1..Len(ass_events) :
        /\ ass_events[k].style \in DeclaredStyles
        /\ k <= Len(subs) =>
              LET role == norm_speaker(SegsNode(raw).items[subs[k].src].speaker) IN
              ass_events[k].style =
                  (IF role = "HECTOR" THEN "Hector"
                   ELSE IF role = "AURA" THEN "Aura" ELSE "Base")

\* C15 witness: an event of a named speaker and an event of a speaker that
\* is not recognized
C15_Witness ==
    /\ pc = "done" /\ Len(ass_file[1]) >= 2
    /\ \E k \in 1..Len(ass_file[1]) : ass_file[1][k].style = "Hector"
    /\ \E k \in 1..Len(ass_file[1]) :
          /\ ass_file[1][k].style = "Base"
          /\ SegsNode(raw).items[subs[k].src].speaker = <<"B", "o", "b">>

\* C20: when every segment of the input has valid timing and the segments
\* are in order without overlap, every sub-caption has end > start and
\* starts no earlier than the sub-caption before it ends.
C20_SubCaptionsOrdered ==
    (/\ pc = "done" /\ Recognized(raw)
     /\ \A i \in 1..Len(InputItems) : ValidTiming(InputItems[i])
     /\ \A i \in 1..(Len(InputItems) - 1) :
           InputItems[i + 1].start[1] >= InputItems[i].end[1])
    => /\ \A k \in 1..Len(subs) : FLt(subs[k].st, subs[k].en)
       /\ \A k \in 1..(Len(subs) - 1) : FLe(subs[k].en, subs[k + 1].st)

(***************************************************************************)
(* SpecNorm: one call of norm_speaker                                      *)
(***************************************************************************)
NormBases ==
    {<<>>,
     <<"A", "u", "r", "a">>, <<"a", "u", "r", "a">>, <<"A", "U", "R", "A">>,
     <<"H", EAcuteLower, "c", "t", "o", "r">>, <<"H", "E", "C", "T", "O", "R">>,
     <<"h", "e", "c", "t", "o", "r">>, <<"h", EAcuteUpper, "c", "t", "o", "r">>,
     <<"N", "a", "r", "r", "a", "d", "o", "r">>,
     <<"c", "o", "l", "d", " ", "o", "p", "e", "n">>,
     <<"B", "o", "b">>, <<"A", "u", "r">>, <<"H", "e", "c", "t", "o">>,
     <<"H", EAcuteLower, " ", "c", "t", "o", "r">>}
NormPrefixes == {<<>>, <<" ">>, <<":">>}
NormSuffixes == {<<>>, <<":">>, <<" ", ":">>, <<":", " ">>, <<"x">>, <<" ", "x">>, <<":", ":">>}
NormLabels == {p \o b \o x : p \in NormPrefixes, b \in NormBases, x \in NormSuffixes}

InitNorm ==
    /\ BuildIdle /\ SplitIdle /\ SynthIdle /\ WrapIdle /\ AssignIdle /\ AudioIdle
    /\ WhisperIdle
    /\ n_pc = "call"
    /\ n_raw \in NormLabels
    /\ n_role = "none"

\* lines 93-94: no label, or an empty one
NormMissing ==
    /\ n_pc = "call" /\ n_raw = <<>>
    /\ n_role' = norm_speaker(n_raw)
    /\ n_pc' = "done"
    /\ UNCHANGED n_raw
    /\ UNCHANGED <<buildVars, splitVars, synthVars, wrapVars, assignVars, audioVars, whisperVars>>

\* lines 95-103
NormLabel ==
    /\ n_pc = "call" /\ n_raw # <<>>
    /\ n_role' = norm_speaker(n_raw)
    /\ n_pc' = "done"
    /\ UNCHANGED n_raw
    /\ UNCHANGED <<buildVars, splitVars, synthVars, wrapVars, assignVars, audioVars, whisperVars>>

NextNorm == NormMissing \/ NormLabel

SpecNorm == InitNorm /\ [][NextNorm]_vars

\* a label without its accents, in capitals
Plain(l) == [i \in 1..Len(l) |-> UpperOf(StripAccentOf(l[i]))]

\* the label is the name, letter case, accents, surrounding blanks and
\* closing colons aside
IsName(l, name) == Strip(RStrip(Strip(Plain(l)), {":"})) = name

\* the label begins with the name, letter case, accents and leading blanks
\* aside
BeginsWithName(l, name) == StartsWith(LStrip(Plain(l), Whitespace), name)

Roles == {"NARRATOR", "HECTOR", "AURA"}

\* C16 as stated: the role is one of the closed set; it is a speaker's role
\* when the label is that speaker's name up to letter case and accents,
\* and NARRATOR for every other label.
C16_RoleByName ==
    n_pc = "done" =>
        /\ n_role \in Roles
        /\ n_role = (IF IsName(n_raw, Chars_HECTOR) THEN "HECTOR"
                     ELSE IF IsName(n_raw, Chars_AURA) THEN "AURA"
                     ELSE "NARRATOR")

\* C16 as amended: the role is one of the closed set; it is a speaker's
\* role when the label begins with that speaker's name (HECTOR or AURA)
\* up to letter case, accents and leading blanks, whatever follows the
\* name, and NARRATOR for every other label.
C16_RoleByPrefix ==
    n_pc = "done" =>
        /\ n_role \in Roles
        /\ n_role = (IF BeginsWithName(n_raw, Chars_HECTOR) THEN "HECTOR"
                     ELSE IF BeginsWithName(n_raw, Chars_AURA) THEN "AURA"
                     ELSE "NARRATOR")

\* C16 witness: a label that begins with a name and is not the name
C16_Witness ==
    /\ n_pc = "done" /\ n_role = "HECTOR"
    /\ ~IsName(n_raw, Chars_HECTOR) /\ EAcuteLower \in {n_raw[i] : i \in 1..Len(n_raw)}

(***************************************************************************)
(* texto_a_audio (src/audio.py:356-453) with _clean_for_tts (147-161),     *)
(* _write_segments_sidecar (261-275), _write_timeline_from_chunks (277-314)*)
(***************************************************************************)
MaxPairs == 3

\* the emoji of the default tts_whitelist_emojis (line 378) among the
\* characters of the model: U+1F525
EmojiWhitelist == {Fire}

\* lines 109-114
is_emoji_char(ch) == ch \in EmojiChars

\* lines 116-141: without allow every emoji goes; with allow the text is cut
\* at each [.!?] followed by whitespace and at each line break, and in each
\* piece the first emoji of the whitelist stays and every other emoji goes
filter_emojis(text, allow) ==
    LET IsCut(j) == \/ text[j] = "\n"
                    \/ j < Len(text) /\ text[j] \in {".", "!", "?"}
                       /\ text[j + 1] \in Whitespace
        Listed(k) == is_emoji_char(text[k]) /\ text[k] \in EmojiWhitelist
        SamePiece(k, i) == \A j \in (k + 1)..(i - 1) : ~IsCut(j)
    IN  IF ~allow
        THEN Filter(text, LAMBDA i : ~is_emoji_char(text[i]))
        ELSE Filter(text, LAMBDA i :
                \/ ~is_emoji_char(text[i])
                \/ /\ Listed(i)
                   /\ ~\E k \in 1..(i - 1) : Listed(k) /\ SamePiece(k, i))

\* line 157, re.sub(r"\s+([,;:\.\?!])", r"\1", t): the whitespace that runs
\* up to one of these marks goes
NoSpaceBeforeMark(t) ==
    Filter(t, LAMBDA i :
        \/ t[i] \notin Whitespace
        \/ ~\E j \in (i + 1)..Len(t) :
               /\ t[j] \in {",", ";", ":", ".", "?", "!"}
               /\ \A k \in i..(j - 1) : t[k] \in Whitespace)

\* line 158, re.sub(r"([\(¿¡])\s+", r"\1", t): the whitespace that follows
\* an opening mark goes
NoSpaceAfterOpening(t) ==
    Filter(t, LAMBDA i :
        \/ t[i] \notin Whitespace
        \/ ~\E j \in 1..(i - 1) :
               /\ t[j] \in {"(", InvertedQuestion, InvertedExclamation}
               /\ \A k \in (j + 1)..i : t[k] \in Whitespace)

\* lines 147-161
clean_for_tts(text, allow) ==
    LET t1 == StripTags(Strip(text))
        t2 == filter_emojis(t1, allow)
        t3 == NoSpaceAfterOpening(NoSpaceBeforeMark(CollapseRuns(t2)))
    IN  StripChars(t3, {" ", ",", ";", ":"})

\* lines 398-405
VoiceOf(role) ==
    IF role = "HECTOR" THEN "voice_hector"
    ELSE IF role = "AURA" THEN "voice_aura" ELSE "voice_narr"

\* line 267
SpeakerName(role) ==
    IF role = "HECTOR" THEN <<"H", EAcuteLower, "c", "t", "o", "r">>
    ELSE IF role = "AURA" THEN <<"A", "u", "r", "a">>
    ELSE <<"N", "a", "r", "r", "a", "t", "o", "r">>

\* lines 412-415: the chunk rendered from pair i, named after i and the role
Chunk(i, role, tts_text) ==
    [file |-> <<i, role>>, voice |-> VoiceOf(role), input |-> tts_text]

\* lines 266 and 293, zip(pairs, chunk_paths): the k-th of one list with the
\* k-th of the other, up to the shorter list
Paired(pairs, chunk_paths) ==
    [k \in 1..Min(Len(pairs), Len(chunk_paths)) |-> <<pairs[k], chunk_paths[k]>>]

\* lines 261-275
SidecarRecords(pairs, chunks) ==
    LET z == Paired(pairs, chunks)
    IN  [k \in 1..Len(z) |->
            [speaker |-> SpeakerName(z[k][1].role), text |-> z[k][1].text,
             file |-> z[k][2].file]]

\* lines 292-296: the clock t after the first n durations (given in ticks)
RECURSIVE ClockAfter(_, _)
ClockAfter(durs, n) ==
    IF n = 0 THEN FZero ELSE FAdd(ClockAfter(durs, n - 1), Sec(durs[n]))

\* lines 291-305: the clock t runs over the measured durations; start and
\* end are written rounded to the millisecond
TimelineSegments(records, chunks, durs) ==
    LET z == Paired(records, chunks)
    IN  [k \in 1..Len(z) |->
            [start |-> RoundMs(ClockAfter(durs, k - 1)),
             end |-> RoundMs(ClockAfter(durs, k)),
             speaker |-> z[k][1].speaker, text |-> z[k][1].text,
             file |-> z[k][1].file]]

\* the texts of the pairs: none, a stage direction alone, an emoji of the
\* whitelist alone, a sentence with a direction and an emoji
AudioTexts ==
    {<<>>, <<"[", "a", "]">>, <<Fire>>,
     <<"a", " ", "[", "b", "]", " ", ",", " ", "c", Emoji, Sun, Clef>>}

\* _parse_transcript_from_text merges consecutive lines of one role (lines
\* 205-211): two pairs that follow one another have different roles
AudioPairs ==
    {ps \in SeqsUpTo([role : Roles, text : AudioTexts], MaxPairs) :
        \A k \in 1..(Len(ps) - 1) : ps[k].role # ps[k + 1].role}

\* what _ffprobe_duration can return for a chunk: 0.0 when the probe fails
\* (lines 222-232), or the length of the audio, here 2.0004 s
Durations == {0, 2 * TicksPerSec + 5}

InitAudio ==
    /\ BuildIdle /\ SplitIdle /\ SynthIdle /\ WrapIdle /\ AssignIdle /\ NormIdle
    /\ WhisperIdle
    /\ a_pc = "client"
    /\ a_pairs \in AudioPairs
    /\ a_allow \in BOOLEAN
    /\ a_i = 1
    /\ a_chunks = <<>> /\ a_durs = <<>> /\ a_sidecar = <<>> /\ a_timeline = <<>>

AudioRest == <<buildVars, splitVars, synthVars, wrapVars, assignVars, normVars, whisperVars>>

\* line 381 with lines 85-97: without the openai package or without a key
\* there is no client
AudioNoClient ==
    /\ a_pc = "client"
    /\ a_pc' = "RuntimeError"
    /\ UNCHANGED <<a_pairs, a_allow, a_i, a_chunks, a_durs, a_sidecar, a_timeline>>
    /\ UNCHANGED AudioRest

\* lines 381-391: the client is loaded and the transcript parsed
AudioClient ==
    /\ a_pc = "client"
    /\ a_pc' = "loop"
    /\ UNCHANGED <<a_pairs, a_allow, a_i, a_chunks, a_durs, a_sidecar, a_timeline>>
    /\ UNCHANGED AudioRest

\* lines 396-397: a pair whose text is blank is passed over
AudioSkipBlank ==
    /\ a_pc = "loop" /\ a_i <= Len(a_pairs)
    /\ Strip(a_pairs[a_i].text) = <<>>
    /\ a_i' = a_i + 1
    /\ UNCHANGED <<a_pc, a_pairs, a_allow, a_chunks, a_durs, a_sidecar, a_timeline>>
    /\ UNCHANGED AudioRest

\* lines 407-410: a pair whose cleaned text is empty is passed over
AudioSkipFiltered ==
    /\ a_pc = "loop" /\ a_i <= Len(a_pairs)
    /\ Strip(a_pairs[a_i].text) # <<>>
    /\ clean_for_tts(a_pairs[a_i].text, a_allow) = <<>>
    /\ a_i' = a_i + 1
    /\ UNCHANGED <<a_pc, a_pairs, a_allow, a_chunks, a_durs, a_sidecar, a_timeline>>
    /\ UNCHANGED AudioRest

\* lines 412-415: the cleaned text is rendered to a chunk of its own
AudioRender ==
    /\ a_pc = "loop" /\ a_i <= Len(a_pairs)
    /\ clean_for_tts(a_pairs[a_i].text, a_allow) # <<>>
    /\ a_chunks' = Append(a_chunks, Chunk(a_i, a_pairs[a_i].role,
                                          clean_for_tts(a_pairs[a_i].text, a_allow)))
    /\ a_i' = a_i + 1
    /\ UNCHANGED <<a_pc, a_pairs, a_allow, a_durs, a_sidecar, a_timeline>>
    /\ UNCHANGED AudioRest

\* line 414 with lines 320-350: the voice service gives no audio
AudioTtsFails ==
    /\ a_pc = "loop" /\ a_i <= Len(a_pairs)
    /\ clean_for_tts(a_pairs[a_i].text, a_allow) # <<>>
    /\ a_pc' = "RuntimeError"
    /\ UNCHANGED <<a_pairs, a_allow, a_i, a_chunks, a_durs, a_sidecar, a_timeline>>
    /\ UNCHANGED AudioRest

\* lines 426-427: nothing was rendered
AudioNoChunks ==
    /\ a_pc = "loop" /\ a_i > Len(a_pairs)
    /\ a_chunks = <<>>
    /\ a_pc' = "SystemExit"
    /\ UNCHANGED <<a_pairs, a_allow, a_i, a_chunks, a_durs, a_sidecar, a_timeline>>
    /\ UNCHANGED AudioRest

\* lines 430-432: the one chunk is copied to the final WAV
AudioCopy ==
    /\ a_pc = "loop" /\ a_i > Len(a_pairs)
    /\ Len(a_chunks) = 1
    /\ a_pc' = "verify"
    /\ UNCHANGED <<a_pairs, a_allow, a_i, a_chunks, a_durs, a_sidecar, a_timeline>>
    /\ UNCHANGED AudioRest

\* lines 433-435 with lines 235-255: ffmpeg joins the chunks
AudioConcat ==
    /\ a_pc = "loop" /\ a_i > Len(a_pairs)
    /\ Len(a_chunks) > 1
    /\ a_pc' = "verify"
    /\ UNCHANGED <<a_pairs, a_allow, a_i, a_chunks, a_durs, a_sidecar, a_timeline>>
    /\ UNCHANGED AudioRest

\* lines 239-240: there is no ffmpeg to join the chunks
AudioNoFfmpeg ==
    /\ a_pc = "loop" /\ a_i > Len(a_pairs)
    /\ Len(a_chunks) > 1
    /\ a_pc' = "SystemExit"
    /\ UNCHANGED <<a_pairs, a_allow, a_i, a_chunks, a_durs, a_sidecar, a_timeline>>
    /\ UNCHANGED AudioRest

\* line 254: ffmpeg fails
AudioConcatFails ==
    /\ a_pc = "loop" /\ a_i > Len(a_pairs)
    /\ Len(a_chunks) > 1
    /\ a_pc' = "CalledProcessError"
    /\ UNCHANGED <<a_pairs, a_allow, a_i, a_chunks, a_durs, a_sidecar, a_timeline>>
    /\ UNCHANGED AudioRest

\* lines 438-439: the final WAV is missing or empty
AudioNoWav ==
    /\ a_pc = "verify"
    /\ a_pc' = "RuntimeError"
    /\ UNCHANGED <<a_pairs, a_allow, a_i, a_chunks, a_durs, a_sidecar, a_timeline>>
    /\ UNCHANGED AudioRest

\* lines 442 and 288 with lines 261-275: the sidecar is written from ALL the
\* pairs and the chunks
AudioWriteSidecar ==
    /\ a_pc = "verify"
    /\ a_sidecar' = SidecarRecords(a_pairs, a_chunks)
    /\ a_pc' = "sidecar"
    /\ UNCHANGED <<a_pairs, a_allow, a_i, a_chunks, a_durs, a_timeline>>
    /\ UNCHANGED AudioRest

\* lines 290-314: each chunk is measured and the timeline is written from
\* the records of the sidecar and the chunks
AudioWriteTimeline ==
    /\ a_pc = "sidecar"
    /\ \E durs \in [1..Len(a_chunks) -> Durations] :
          /\ a_durs' = durs
          /\ a_timeline' = TimelineSegments(a_sidecar, a_chunks, durs)
    /\ a_pc' = "done"
    /\ UNCHANGED <<a_pairs, a_allow, a_i, a_chunks, a_sidecar>>
    /\ UNCHANGED AudioRest

NextAudio ==
    \/ AudioNoClient \/ AudioClient
    \/ AudioSkipBlank \/ AudioSkipFiltered \/ AudioRender \/ AudioTtsFails
    \/ AudioNoChunks \/ AudioCopy \/ AudioConcat \/ AudioNoFfmpeg \/ AudioConcatFails
    \/ AudioNoWav \/ AudioWriteSidecar \/ AudioWriteTimeline

SpecAudio == InitAudio /\ [][NextAudio]_vars

(***************************************************************************)
(* Claims about texto_a_audio, checked under SpecAudio                     *)
(***************************************************************************)
\* the pair that the chunk was rendered from
SourceOf(chunk) == a_pairs[chunk.file[1]]

\* C29: in the timeline written, every segment carries the file and the
\* measured duration of a chunk together with the speaker and the text of
\* the pair that this chunk was rendered from, whatever pairs were skipped.
C29_ChunkWithItsUtterance ==
    a_pc = "done" =>
        /\ Len(a_timeline) = Len(a_chunks)
        /\ \A k \in 1..Len(a_timeline) :
              /\ a_timeline[k].file = a_chunks[k].file
              /\ a_timeline[k].start = RoundMs(ClockAfter(a_durs, k - 1))
              /\ a_timeline[k].end = RoundMs(ClockAfter(a_durs, k))
              /\ a_timeline[k].speaker = SpeakerName(SourceOf(a_chunks[k]).role)
              /\ a_timeline[k].text = SourceOf(a_chunks[k]).text

(***************************************************************************)
(* srt_whisper.main (src/srt_whisper.py:219-277) with ensure_audio_exists  *)
(* (42-48) and the three caption sources: transcribe_with_python_whisper   *)
(* (92-132), transcribe_with_cli_whisper (134-169), fallback_from_txt      *)
(* (171-215)                                                               *)
(*                                                                         *)
(* The audio file is "absent", "empty" or "data" (not empty), and another  *)
(* process may write or remove it while main waits for it.  The SRT file   *)
(* is "absent", "empty" or "text" (not empty).  An attempt is recorded     *)
(* with what happened in it, what the function returned and the state of   *)
(* the SRT file it left.  An exception that nothing catches ends the       *)
(* process with status 1.                                                  *)
(***************************************************************************)
\* line 42: the number of times ensure_audio_exists looks for the file
Retries == 15

\* lines 92-132: the package is missing, the model does not load, the
\* transcription raises; a segment of the result lacks a key, which raises
\* KeyError outside every try (lines 118-123); otherwise write_srt writes
\* one block or more, the whole text as one block when there are no
\* segments (lines 125-130)
PythonOutcomes ==
    {"ImportError", "load_error", "transcribe_error", "KeyError", "segments", "no_segments"}
PythonReturns(o) == o \in {"segments", "no_segments"}
PythonSrt(o, srt) == IF PythonReturns(o) THEN "text" ELSE srt

\* lines 134-169: no executable; the command cannot be started (OSError,
\* which line 157 does not catch); the command fails; the command ends
\* well.  When the command ran, there is then no file, an empty file or a
\* file with text under the name of the audio with the suffix .srt, also
\* after a failure
CliOutcomes ==
    ({"not_found", "OSError"} \X {"untouched"})
        \cup ({"CalledProcessError", "returned"} \X {"absent", "empty", "text"})

\* lines 160-169: True when the command ended well and its file is there
CliReturns(o) == o[1] = "returned" /\ o[2] # "absent"

\* the SRT file after the attempt: the file of the command is the SRT file
\* itself when same holds; otherwise it is moved to the SRT path when the
\* function returns True (lines 161-165)
CliSrt(o, srt, same) ==
    IF o[2] = "untouched" THEN srt
    ELSE IF same \/ CliReturns(o) THEN o[2]
    ELSE srt

\* lines 171-215: no TXT file; a TXT file that is not UTF-8, which raises
\* UnicodeDecodeError at line 179; an empty one; one without a line left
\* after strip_meta; otherwise one block per cleaned line is written
TxtOutcomes == {"no_txt", "UnicodeDecodeError", "empty_txt", "no_clean_lines", "lines"}
TxtReturns(o) == o = "lines"
TxtSrt(o, srt) == IF TxtReturns(o) THEN "text" ELSE srt

\* the outcomes that are an exception no line of main catches
Uncaught == {"KeyError", "OSError", "UnicodeDecodeError"}

Attempt(src, o, ret, srt) == [src |-> src, outcome |-> o, ret |-> ret, srt |-> srt]

\* mutant of NextSource: the command-line tool is passed over
NextSource_SkipsCli(src) == IF src = "python" THEN "txt" ELSE "exit"

\* lines 256-277: what main turns to when a source has not given the SRT
NextSource(src) ==
    IF src = "python" THEN "cli" ELSE IF src = "cli" THEN "txt" ELSE "exit"

\* lines 227-235: the paths come from the configuration file, or from
\* --audio and --out, or one of these two is missing; with
\* --tema-from-config the SRT path is the audio path with the suffix .srt
\* (lines 37-39).  The audio file is "absent", "empty" or "data"
InitWhisper ==
    /\ BuildIdle /\ SplitIdle /\ SynthIdle /\ WrapIdle /\ AssignIdle /\ NormIdle
    /\ AudioIdle
    /\ wh_pc = "args"
    /\ wh_args \in {"config", "paths", "missing"}
    /\ wh_same \in BOOLEAN
    /\ wh_args = "config" => wh_same
    /\ wh_args = "missing" => ~wh_same
    /\ wh_audio \in {"absent", "empty", "data"}
    /\ wh_polls = 0
    /\ wh_srt \in {"absent", "text"}
    /\ wh_tried = <<>>
    /\ wh_status = -1

WhisperRest == <<buildVars, splitVars, synthVars, wrapVars, assignVars, normVars, audioVars>>

\* lines 230-232: --audio or --out is missing
WhBadArgs ==
    /\ wh_pc = "args" /\ wh_args = "missing"
    /\ wh_pc' = "exit" /\ wh_status' = 1
    /\ UNCHANGED <<wh_args, wh_audio, wh_polls, wh_same, wh_srt, wh_tried>>
    /\ UNCHANGED WhisperRest

\* lines 227-240
WhPaths ==
    /\ wh_pc = "args" /\ wh_args # "missing"
    /\ wh_pc' = "check"
    /\ UNCHANGED <<wh_args, wh_audio, wh_polls, wh_same, wh_srt, wh_tried, wh_status>>
    /\ UNCHANGED WhisperRest

\* lines 45-46: the file is there and not empty
WhPollFound ==
    /\ wh_pc = "check" /\ wh_polls < Retries /\ wh_audio = "data"
    /\ wh_pc' = "python"
    /\ UNCHANGED <<wh_args, wh_audio, wh_polls, wh_same, wh_srt, wh_tried, wh_status>>
    /\ UNCHANGED WhisperRest

\* lines 45 and 47: the file is missing or empty; during the sleep it may
\* be written or removed
WhPollWait ==
    /\ wh_pc = "check" /\ wh_polls < Retries /\ wh_audio # "data"
    /\ wh_polls' = wh_polls + 1
    /\ wh_audio' \in {"absent", "empty", "data"}
    /\ UNCHANGED <<wh_pc, wh_args, wh_same, wh_srt, wh_tried, wh_status>>
    /\ UNCHANGED WhisperRest

\* line 45: the file is removed between exists() and stat(), which raises
\* FileNotFoundError
WhPollVanished ==
    /\ wh_pc = "check" /\ wh_polls < Retries /\ wh_audio # "absent"
    /\ wh_audio' = "absent"
    /\ wh_pc' = "exit" /\ wh_status' = 1
    /\ UNCHANGED <<wh_args, wh_polls, wh_same, wh_srt, wh_tried>>
    /\ UNCHANGED WhisperRest

\* line 48 and line 242: after the last sleep a file that is there is
\* enough, empty or not
WhAfterWait ==
    /\ wh_pc = "check" /\ wh_polls = Retries /\ wh_audio # "absent"
    /\ wh_pc' = "python"
    /\ UNCHANGED <<wh_args, wh_audio, wh_polls, wh_same, wh_srt, wh_tried, wh_status>>
    /\ UNCHANGED WhisperRest

\* line 48 and lines 242-254: without the audio file main exits with status 1
WhNoAudio ==
    /\ wh_pc = "check" /\ wh_polls = Retries /\ wh_audio = "absent"
    /\ wh_pc' = "exit" /\ wh_status' = 1
    /\ UNCHANGED <<wh_args, wh_audio, wh_polls, wh_same, wh_srt, wh_tried>>
    /\ UNCHANGED WhisperRest

\* what main does after a Whisper source ended with outcome o, returned ret
\* and left the SRT file in state srt (lines 257-262 and 265-270)
AfterWhisper(src, o, ret, srt) ==
    IF o \in Uncaught
    THEN wh_pc' = "exit" /\ wh_status' = 1
    ELSE IF ret /\ srt = "text"
    THEN wh_pc' = "exit" /\ wh_status' = 0
    ELSE wh_pc' = NextSource(src) /\ wh_status' = wh_status

\* lines 256-262
WhPython ==
    /\ wh_pc = "python"
    /\ \E o \in PythonOutcomes :
          /\ wh_srt' = PythonSrt(o, wh_srt)
          /\ wh_tried' = Append(wh_tried, Attempt("python", o, PythonReturns(o),
                                                  PythonSrt(o, wh_srt)))
          /\ AfterWhisper("python", o, PythonReturns(o), PythonSrt(o, wh_srt))
    /\ UNCHANGED <<wh_args, wh_audio, wh_polls, wh_same>>
    /\ UNCHANGED WhisperRest

\* lines 264-270
WhCli ==
    /\ wh_pc = "cli"
    /\ \E o \in CliOutcomes :
          /\ wh_srt' = CliSrt(o, wh_srt, wh_same)
          /\ wh_tried' = Append(wh_tried, Attempt("cli", o[1], CliReturns(o),
                                                  CliSrt(o, wh_srt, wh_same)))
          /\ AfterWhisper("cli", o[1], CliReturns(o), CliSrt(o, wh_srt, wh_same))
    /\ UNCHANGED <<wh_args, wh_audio, wh_polls, wh_same>>
    /\ UNCHANGED WhisperRest

\* lines 272-277: the TXT fallback decides the exit status
WhTxt ==
    /\ wh_pc = "txt"
    /\ \E o \in TxtOutcomes :
          /\ wh_srt' = TxtSrt(o, wh_srt)
          /\ wh_tried' = Append(wh_tried, Attempt("txt", o, TxtReturns(o),
                                                  TxtSrt(o, wh_srt)))
          /\ wh_status' = IF TxtReturns(o) THEN 0 ELSE 1
    /\ wh_pc' = "exit"
    /\ UNCHANGED <<wh_args, wh_audio, wh_polls, wh_same>>
    /\ UNCHANGED WhisperRest

NextWhisper ==
    \/ WhBadArgs \/ WhPaths
    \/ WhPollFound \/ WhPollWait \/ WhPollVanished \/ WhAfterWait \/ WhNoAudio
    \/ WhPython \/ WhCli \/ WhTxt

SpecWhisper == InitWhisper /\ [][NextWhisper]_vars

(***************************************************************************)
(* Claims about srt_whisper.main, checked under SpecWhisper                *)
(***************************************************************************)
SourceOrder == <<"python", "cli", "txt">>

\* the attempt gave the captions: the function returned True and the SRT
\* file holds text
Succeeded(t) == t.ret /\ t.srt = "text"

\* ensure_audio_exists returned True: main is at a source or has tried one
AudioFound == wh_pc \in {"python", "cli", "txt"} \/ wh_tried # <<>>

AllFailed ==
    /\ Len(wh_tried) = Len(SourceOrder)
    /\ \A k \in 1..Len(wh_tried) : ~Succeeded(wh_tried[k])

\* C30: no source is tried before the audio file is found; from then on
\* the sources are tried in the order Python Whisper, Whisper CLI, TXT
\* fallback, a later one only after every earlier one failed or left no
\* non-empty SRT file; the exit status is 0 exactly when a source
\* succeeded, and it is 1 when all three failed; once the audio file is
\* found the only other exit with status 1 is an exception that a source
\* lets through.
C30_SourcesInOrder ==
    /\ ~AudioFound => wh_tried = <<>>
    /\ Len(wh_tried) <= Len(SourceOrder)
    /\ \A k \in 1..Len(wh_tried) : wh_tried[k].src = SourceOrder[k]
    /\ \A k \in 1..(Len(wh_tried) - 1) :
          ~Succeeded(wh_tried[k]) /\ wh_tried[k].outcome \notin Uncaught
    /\ wh_pc = "exit" =>
          /\ wh_status \in {0, 1}
          /\ wh_status = 0 <=> \E k \in 1..Len(wh_tried) : Succeeded(wh_tried[k])
          /\ AllFailed => wh_status = 1
          /\ (AudioFound /\ wh_status = 1) =>
                AllFailed \/ wh_tried[Len(wh_tried)].outcome \in Uncaught

\* C30 witness: the audio file was found after a wait, Python Whisper
\* failed, the CLI returned True with an empty SRT file, and the TXT
\* fallback gave the captions: exit status 0
C30_Witness ==
    /\ wh_pc = "exit" /\ wh_polls > 0 /\ wh_status = 0 /\ Len(wh_tried) = 3
    /\ ~wh_tried[1].ret
    /\ wh_tried[2].ret /\ wh_tried[2].srt = "empty"
    /\ Succeeded(wh_tried[3])

====
